---- MODULE Spec2Model ----
(***************************************************************************)
(* Verification model of the stock screener's indicator / signal core:     *)
(*   - reversal_indicators.py : the ZigZag reversal detector               *)
(*   - reversal_scanner.py    : the per-symbol reversal scan               *)
(*   - indicators.py          : Wilder smoothing, DMI/ADX, DI crossovers   *)
(*                                                                         *)
(* Numbers.  The program computes in binary floating point.  The model     *)
(* computes in fixed point: a price is an integer count of 1/PriceScale    *)
(* rupees, a DI/DX/ADX value an integer count of 1/PctScale percent, and   *)
(* every division is an integer division (\div).  NaN (pandas' "not        *)
(* available") is the integer NaN, which every arithmetic helper           *)
(* propagates the way IEEE arithmetic does.                                *)
(*                                                                         *)
(* Indexing.  The program indexes bars from 0; TLA+ sequences start at 1.  *)
(* At(s, i) reads position i of s in the program's 0-based numbering, so   *)
(* the definitions below keep the program's index arithmetic.              *)
(***************************************************************************)
EXTENDS Integers, Sequences, FiniteSets, TLC

VARIABLES
    df,           \* reversal: the Bar Series handed to the detector / scanner
    settings,     \* reversal: the scan settings map
    result_df,    \* reversal: what calculate_reversal_v3 returned, or NotRun
    records,      \* reversal: what scan_symbol_reversal_prefetched returned, or NotRun
    dmi_bars,     \* DMI: the Bar Series handed to calculate_dmi
    dmi_length,   \* DMI: the length argument
    dmi_out,      \* DMI: the +DI, -DI, ADX columns calculate_dmi wrote, or NotRun
    sig_out,      \* DMI: the Signal columns detect_dmi_crossovers wrote, or NotRun
    wma_in,       \* Wilder smoothing: the series and length handed to wma
    wma_out,      \* Wilder smoothing: the series wma returned, or NotRun
    scan_kind,    \* scan: which per-symbol scanner is called
    scan_df,      \* scan: the caller's Bar Series object
    scan_args,    \* scan: start_date, end_date, show_all
    scan_log,     \* scan: what the calls made so far returned, in order
    symbols,      \* scan_market: the symbols argument
    bulk_data_dict, \* scan_market: symbol -> Bar Series object
    tasks,        \* scan_market: the submitted per-symbol tasks
    results       \* scan_market: the results list, or NotRun before the call

rev_vars == <<df, settings, result_df, records>>
dmi_vars == <<dmi_bars, dmi_length, dmi_out, sig_out>>
wma_vars == <<wma_in, wma_out>>
scan_vars == <<scan_kind, scan_df, scan_args, scan_log>>
mkt_vars == <<symbols, bulk_data_dict, tasks, results>>
vars == <<rev_vars, dmi_vars, wma_vars, scan_vars, mkt_vars>>

-----------------------------------------------------------------------------
(* Bounds of the model *)

\* longest Bar Series the reversal specification builds
MaxBars == 51
\* number of leading bars of the series that are flat at the base price
PreLen == 47
\* largest confirmation lag tried
MaxLag == 1
\* timestamps (bar slots) per calendar day
TicksPerDay == 2
\* longest Bar Series and largest length the DMI specification tries
MaxDmiBars == 5
MaxDmiLen == 2
\* longest series and largest length the Wilder smoothing specification tries
MaxWmaLen == 4
MaxWmaN == 3

-----------------------------------------------------------------------------
(* Values *)

NaN == -1000000000
None == [isNone |-> TRUE]
NotRun == [notRun |-> TRUE]
\* an absent start_date / end_date
NoDate == 0 - 1

\* price units per rupee: thousandths, i.e. 10 per paisa
PriceScale == 10 * 100
BasePrice == 1000 * PriceScale

IsNaN(x) == x = NaN
At(s, i) == s[i + 1]
Max2(a, b) == IF a >= b THEN a ELSE b
Abs(x) == IF x < 0 THEN 0 - x ELSE x

RECURSIVE SumSeq(_)
SumSeq(s) == IF s = <<>> THEN 0 ELSE Head(s) + SumSeq(Tail(s))

\* a series given by a formula, evaluated once into a sequence of values
Series(n, f) == SubSeq(f, 1, n)

\* Series.fillna(0)
fillna0(s) == Series(Len(s), [k \in 1..Len(s) |-> IF IsNaN(s[k]) THEN 0 ELSE s[k]])

\* max(axis=1) over a row of candidates, skipping NaN (NaN when all are NaN)
RowMax(row) ==
    LET defined == {k \in 1..Len(row) : ~IsNaN(row[k])}
    IN IF defined = {} THEN NaN
       ELSE CHOOSE v \in {row[k] : k \in defined} : \A k \in defined : row[k] <= v

\* Python round(x, 2) on a price: nearest paisa, ties to the even paisa
round2(x) ==
    LET unit == PriceScale \div 100
        q == x \div unit
        r == x % unit
    IN IF 2 * r > unit \/ (2 * r = unit /\ q % 2 = 1) THEN (q + 1) * unit ELSE q * unit

-----------------------------------------------------------------------------
(* reversal_indicators.py *)

\* ta.ema(series, length): undefined before index length-1, seeded there by the
\* mean of the first `length` values, then alpha = 2/(length+1), adjust=False
RECURSIVE ema_run(_, _, _)
ema_run(s, length, acc) ==
    LET i == Len(acc)
    IN IF i = Len(s) THEN acc
       ELSE ema_run(s, length,
                Append(acc,
                    IF i < length - 1 THEN NaN
                    ELSE IF i = length - 1 THEN SumSeq(SubSeq(s, 1, length)) \div length
                    ELSE ((length - 1) * acc[i] + 2 * At(s, i)) \div (length + 1)))

ema(s, length) == ema_run(s, length, <<>>)

calculate_ema(bars, length) ==
    ema(Series(Len(bars), [k \in 1..Len(bars) |-> bars[k].close]), length)

\* ta.true_range: undefined at bar 0 (no previous close)
true_range(bars) ==
    Series(Len(bars), [k \in 1..Len(bars) |->
        IF k = 1 THEN NaN
        ELSE Max2(bars[k].high - bars[k].low,
                  Max2(Abs(bars[k].high - bars[k - 1].close),
                       Abs(bars[k - 1].close - bars[k].low)))])

\* ta.atr(high, low, close, length, mamode="rma"): Wilder smoothing (alpha =
\* 1/length) of the true range, undefined until `length` true ranges exist
RECURSIVE rma_run(_, _, _)
rma_run(tr, length, acc) ==
    LET i == Len(acc)
    IN IF i = Len(tr) THEN acc
       ELSE rma_run(tr, length,
                Append(acc,
                    IF i < length THEN NaN
                    ELSE IF i = length THEN SumSeq(SubSeq(tr, 2, length + 1)) \div length
                    ELSE (acc[i] * (length - 1) + At(tr, i)) \div length))

calculate_atr(bars, length) == rma_run(true_range(bars), length, <<>>)

\* Returns <<atr_mult, pct_threshold>>; atr_mult in tenths, pct_threshold in
\* thousandths (0.8 is 8, 0.005 is 5).
get_sensitivity_settings(preset, is_custom, custom_settings) ==
    IF is_custom /\ custom_settings # None
    THEN <<custom_settings.atr_mult, custom_settings.pct_threshold>>
    ELSE CASE preset = "Very High" -> <<8, 5>>
           [] preset = "High" -> <<12, 8>>
           [] preset = "Medium" -> <<20, 10>>
           [] preset = "Low" -> <<28, 15>>
           [] preset = "Very Low" -> <<35, 20>>
           [] OTHER -> <<20, 10>>

\* default fixed reversal amount 0.05, ATR length 5, averaging length 5
DefaultFixedAmount == (5 * PriceScale) \div 100
DefaultAtrLength == 5
DefaultAvgLength == 5
\* a series shorter than this yields an empty frame
MinBars == 50
\* first bar the ZigZag loop evaluates (unless the lag is larger)
WarmupIdx == 21

\* (mutation of reversal_amount: every bar gets the amount of the series' last
\* bar, as if read with iloc[-1])
reversal_amount_LastBar(bars, is_custom, custom_settings, atr_mult, pct_threshold) ==
    LET use_custom == is_custom /\ custom_settings # None
        atr_length == IF use_custom THEN custom_settings.atr_length ELSE DefaultAtrLength
        fixed_amount == IF use_custom THEN custom_settings.fixed_reversal ELSE DefaultFixedAmount
        atr_val == calculate_atr(bars, atr_length)
        n == Len(bars)
    IN Series(n, [k \in 1..n |->
          RowMax(<<(bars[n].close * pct_threshold) \div (1000 * 100),
                   fixed_amount,
                   IF IsNaN(atr_val[n]) THEN NaN ELSE (atr_val[n] * atr_mult) \div 10>>)])

\* (mutation of reversal_amount: pct_threshold taken as a fraction of the close)
reversal_amount_Fraction(bars, is_custom, custom_settings, atr_mult, pct_threshold) ==
    LET use_custom == is_custom /\ custom_settings # None
        atr_length == IF use_custom THEN custom_settings.atr_length ELSE DefaultAtrLength
        fixed_amount == IF use_custom THEN custom_settings.fixed_reversal ELSE DefaultFixedAmount
        atr_val == calculate_atr(bars, atr_length)
    IN Series(Len(bars), [k \in 1..Len(bars) |->
          RowMax(<<(bars[k].close * pct_threshold) \div 1000,
                   fixed_amount,
                   IF IsNaN(atr_val[k]) THEN NaN ELSE (atr_val[k] * atr_mult) \div 10>>)])

\* reversal_amount: per bar max(close * (pct_threshold / 100), fixed, atr * atr_mult)
reversal_amount(bars, is_custom, custom_settings, atr_mult, pct_threshold) ==
    LET use_custom == is_custom /\ custom_settings # None
        atr_length == IF use_custom THEN custom_settings.atr_length ELSE DefaultAtrLength
        fixed_amount == IF use_custom THEN custom_settings.fixed_reversal ELSE DefaultFixedAmount
        atr_val == calculate_atr(bars, atr_length)
    IN Series(Len(bars), [k \in 1..Len(bars) |->
          RowMax(<<(bars[k].close * pct_threshold) \div (1000 * 100),
                   fixed_amount,
                   IF IsNaN(atr_val[k]) THEN NaN ELSE (atr_val[k] * atr_mult) \div 10>>)])

\* priceh / pricel: EMA(avg_length) of high / low, or the raw high / low
zigzag_prices(bars, calculation_method, is_custom, custom_settings) ==
    LET use_custom == is_custom /\ custom_settings # None
        avg_length == IF use_custom THEN custom_settings.avg_length ELSE DefaultAvgLength
        high == Series(Len(bars), [k \in 1..Len(bars) |-> bars[k].high])
        low == Series(Len(bars), [k \in 1..Len(bars) |-> bars[k].low])
    IN IF calculation_method = "average"
       THEN [priceh |-> ema(high, avg_length), pricel |-> ema(low, avg_length)]
       ELSE [priceh |-> high, pricel |-> low]

\* (mutation of ZigZagInit: the loop starts out looking for a low)
ZigZagInit_Down(priceh_vals, pricel_vals) ==
    [direction |-> 0 - 1,
     zhigh |-> At(priceh_vals, 0), zlow |-> At(pricel_vals, 0),
     zhigh_idx |-> 0, zlow_idx |-> 0,
     signal |-> 0, signal_price |-> 0, pivot_idx |-> NaN]

\* the ZigZag state before the loop
ZigZagInit(priceh_vals, pricel_vals) ==
    [direction |-> 1,
     zhigh |-> At(priceh_vals, 0), zlow |-> At(pricel_vals, 0),
     zhigh_idx |-> 0, zlow_idx |-> 0,
     signal |-> 0, signal_price |-> 0, pivot_idx |-> NaN]

\* (mutation of TrackHigh: a tie with the running high moves its index)
TrackHigh_ExtendOnTie(s, i, confirmation_bars, priceh_vals, pricel_vals, rev_amt_vals) ==
    LET curr_ph == At(priceh_vals, i - confirmation_bars)
        curr_pl == At(pricel_vals, i - confirmation_bars)
        curr_rev == At(rev_amt_vals, i)
        ext == curr_ph >= s.zhigh
        zhigh == IF ext THEN curr_ph ELSE s.zhigh
        zhigh_idx == IF ext THEN i - confirmation_bars ELSE s.zhigh_idx
    IN IF (zhigh - curr_pl) >= curr_rev
       THEN [direction |-> -1,
             zhigh |-> zhigh, zhigh_idx |-> zhigh_idx,
             zlow |-> curr_pl, zlow_idx |-> i - confirmation_bars,
             signal |-> -1, signal_price |-> zhigh, pivot_idx |-> zhigh_idx]
       ELSE [direction |-> 1,
             zhigh |-> zhigh, zhigh_idx |-> zhigh_idx,
             zlow |-> s.zlow, zlow_idx |-> s.zlow_idx,
             signal |-> 0, signal_price |-> 0, pivot_idx |-> NaN]

\* TrackingHigh at bar i: extend the running high, then confirm a High pivot
\* when the retracement reaches the bar's reversal amount
TrackHigh(s, i, confirmation_bars, priceh_vals, pricel_vals, rev_amt_vals) ==
    LET curr_ph == At(priceh_vals, i - confirmation_bars)
        curr_pl == At(pricel_vals, i - confirmation_bars)
        curr_rev == At(rev_amt_vals, i)
        ext == curr_ph > s.zhigh
        zhigh == IF ext THEN curr_ph ELSE s.zhigh
        zhigh_idx == IF ext THEN i - confirmation_bars ELSE s.zhigh_idx
    IN IF (zhigh - curr_pl) >= curr_rev
       THEN [direction |-> -1,
             zhigh |-> zhigh, zhigh_idx |-> zhigh_idx,
             zlow |-> curr_pl, zlow_idx |-> i - confirmation_bars,
             signal |-> -1, signal_price |-> zhigh, pivot_idx |-> zhigh_idx]
       ELSE [direction |-> 1,
             zhigh |-> zhigh, zhigh_idx |-> zhigh_idx,
             zlow |-> s.zlow, zlow_idx |-> s.zlow_idx,
             signal |-> 0, signal_price |-> 0, pivot_idx |-> NaN]

\* (mutation of TrackLow: the Low pivot is checked against the running low as
\* it was before the bar, and the running low is extended afterwards)
TrackLow_ConfirmFirst(s, i, confirmation_bars, priceh_vals, pricel_vals, rev_amt_vals) ==
    LET curr_ph == At(priceh_vals, i - confirmation_bars)
        curr_pl == At(pricel_vals, i - confirmation_bars)
        curr_rev == At(rev_amt_vals, i)
        ext == curr_pl < s.zlow
        zlow == IF ext THEN curr_pl ELSE s.zlow
        zlow_idx == IF ext THEN i - confirmation_bars ELSE s.zlow_idx
    IN IF (curr_ph - s.zlow) >= curr_rev
       THEN [direction |-> 1,
             zhigh |-> curr_ph, zhigh_idx |-> i - confirmation_bars,
             zlow |-> zlow, zlow_idx |-> zlow_idx,
             signal |-> 1, signal_price |-> zlow, pivot_idx |-> zlow_idx]
       ELSE [direction |-> -1,
             zhigh |-> s.zhigh, zhigh_idx |-> s.zhigh_idx,
             zlow |-> zlow, zlow_idx |-> zlow_idx,
             signal |-> 0, signal_price |-> 0, pivot_idx |-> NaN]

\* TrackingLow at bar i: the mirror image
TrackLow(s, i, confirmation_bars, priceh_vals, pricel_vals, rev_amt_vals) ==
    LET curr_ph == At(priceh_vals, i - confirmation_bars)
        curr_pl == At(pricel_vals, i - confirmation_bars)
        curr_rev == At(rev_amt_vals, i)
        ext == curr_pl < s.zlow
        zlow == IF ext THEN curr_pl ELSE s.zlow
        zlow_idx == IF ext THEN i - confirmation_bars ELSE s.zlow_idx
    IN IF (curr_ph - zlow) >= curr_rev
       THEN [direction |-> 1,
             zhigh |-> curr_ph, zhigh_idx |-> i - confirmation_bars,
             zlow |-> zlow, zlow_idx |-> zlow_idx,
             signal |-> 1, signal_price |-> zlow, pivot_idx |-> zlow_idx]
       ELSE [direction |-> -1,
             zhigh |-> s.zhigh, zhigh_idx |-> s.zhigh_idx,
             zlow |-> zlow, zlow_idx |-> zlow_idx,
             signal |-> 0, signal_price |-> 0, pivot_idx |-> NaN]

\* (mutation of ZigZagStep: a confirmed Low pivot does not switch the direction)
ZigZagStep_StayDown(s, i, confirmation_bars, priceh_vals, pricel_vals, rev_amt_vals) ==
    IF s.direction = 1
    THEN TrackHigh(s, i, confirmation_bars, priceh_vals, pricel_vals, rev_amt_vals)
    ELSE [TrackLow(s, i, confirmation_bars, priceh_vals, pricel_vals, rev_amt_vals)
             EXCEPT !.direction = -1]

\* (mutation of ZigZagStep: a High pivot reports the confirming bar's smoothed
\* high and time instead of the running high's)
ZigZagStep_ConfirmingBar(s, i, confirmation_bars, priceh_vals, pricel_vals, rev_amt_vals) ==
    IF s.direction = 1
    THEN LET r == TrackHigh(s, i, confirmation_bars, priceh_vals, pricel_vals, rev_amt_vals)
         IN IF r.signal = 0 THEN r
            ELSE [r EXCEPT !.signal_price = At(priceh_vals, i - confirmation_bars),
                           !.pivot_idx = i - confirmation_bars]
    ELSE TrackLow(s, i, confirmation_bars, priceh_vals, pricel_vals, rev_amt_vals)

\* one iteration of the ZigZag loop at bar i, from state s
ZigZagStep(s, i, confirmation_bars, priceh_vals, pricel_vals, rev_amt_vals) ==
    IF s.direction = 1
    THEN TrackHigh(s, i, confirmation_bars, priceh_vals, pricel_vals, rev_amt_vals)
    ELSE TrackLow(s, i, confirmation_bars, priceh_vals, pricel_vals, rev_amt_vals)

\* start_idx = max(21, confirmation_bars)
start_idx(confirmation_bars) == Max2(WarmupIdx, confirmation_bars)

\* the ZigZag loop: acc holds the state before the loop followed by the state
\* after each bar start_idx .. i-1; the result holds them up to bar n-1
RECURSIVE ZigZagRun(_, _, _, _, _, _)
ZigZagRun(acc, i, confirmation_bars, priceh_vals, pricel_vals, rev_amt_vals) ==
    IF i >= Len(rev_amt_vals) THEN acc
    ELSE ZigZagRun(Append(acc, ZigZagStep(acc[Len(acc)], i, confirmation_bars,
                                          priceh_vals, pricel_vals, rev_amt_vals)),
                   i + 1, confirmation_bars, priceh_vals, pricel_vals, rev_amt_vals)

\* the arrays the loop reads: priceh_vals, pricel_vals, rev_amt_vals
zigzag_inputs(bars, sensitivity, calculation_method, is_custom, custom_settings) ==
    LET sens == get_sensitivity_settings(sensitivity, is_custom, custom_settings)
        p == zigzag_prices(bars, calculation_method, is_custom, custom_settings)
    IN [priceh_vals |-> fillna0(p.priceh),
        pricel_vals |-> fillna0(p.pricel),
        rev_amt_vals |-> fillna0(reversal_amount(bars, is_custom, custom_settings,
                                                 sens[1], sens[2]))]

\* ZigZagLoop(...)[1] is the state before the loop, ZigZagLoop(...)[i - start_idx + 2]
\* the state after bar i
ZigZagLoop(inp, confirmation_bars) ==
    ZigZagRun(<<ZigZagInit(inp.priceh_vals, inp.pricel_vals)>>, start_idx(confirmation_bars),
              confirmation_bars, inp.priceh_vals, inp.pricel_vals, inp.rev_amt_vals)

EmptyFrame == [empty |-> TRUE]

\* the result frame: the Signal, Signal_Price and Pivot_Time columns next to the bars
ResultFrame(bars, first, st) ==
    [empty |-> FALSE,
     bars |-> bars,
     Signal |-> Series(Len(bars), [k \in 1..Len(bars) |->
                    IF k - 1 >= first THEN st[k - first + 1].signal ELSE 0]),
     Signal_Price |-> Series(Len(bars), [k \in 1..Len(bars) |->
                    IF k - 1 >= first THEN st[k - first + 1].signal_price ELSE 0]),
     Pivot_Time |-> Series(Len(bars), [k \in 1..Len(bars) |->
                    IF k - 1 >= first /\ st[k - first + 1].signal # 0
                    THEN At(bars, st[k - first + 1].pivot_idx).t ELSE NaN])]

calculate_reversal_v3(bars, sensitivity, calculation_method, confirmation_bars, is_custom, custom_settings) ==
    IF Len(bars) = 0 \/ Len(bars) < MinBars THEN EmptyFrame
    ELSE ResultFrame(bars, start_idx(confirmation_bars),
            ZigZagLoop(zigzag_inputs(bars, sensitivity, calculation_method,
                                     is_custom, custom_settings), confirmation_bars))

-----------------------------------------------------------------------------
(* reversal_scanner.py *)

\* a series shorter than this is not scanned
ScanMinBars == 50

\* tz.localize(datetime.combine(d, datetime.min.time())) and ...max.time():
\* the first and the last instant of calendar day d
start_of_day(d) == d * TicksPerDay
end_of_day(d) == d * TicksPerDay + (TicksPerDay - 1)

ReturnNone == [isNone |-> TRUE, rows |-> <<>>]
ReturnList(rows) == [isNone |-> FALSE, rows |-> rows]

\* one record of symbol_results (the price, time and type fields)
reversal_record(symbol, res_df, k) ==
    [Stock |-> symbol,
     LTP |-> round2(res_df.bars[Len(res_df.bars)].close),
     Signal_Time |-> res_df.bars[k].t,
     Chart_Time |-> res_df.Pivot_Time[k],
     Type |-> IF res_df.Signal[k] = 1 THEN "Bullish" ELSE "Bearish",
     Signal_Price |-> round2(res_df.Signal_Price[k])]

\* the loop over signals.iterrows()
scan_rows(symbol, res_df, signals) ==
    [n \in 1..Len(signals) |-> reversal_record(symbol, res_df, signals[n])]

\* the scan once res_df, the detector's frame for the series, is computed
scan_result_frame(symbol, bars, sett, res_df) ==
    IF res_df.empty THEN ReturnNone
    ELSE LET all == Series(Len(bars), [k \in 1..Len(bars) |-> k])
             signals == SelectSeq(all, LAMBDA k : res_df.Signal[k] # 0)
             ranged == sett.start_date # NoDate /\ sett.end_date # NoDate
             filtered ==
                 IF ranged
                 THEN SelectSeq(signals,
                          LAMBDA k : /\ bars[k].t >= start_of_day(sett.start_date)
                                     /\ bars[k].t <= end_of_day(sett.end_date))
                 ELSE signals
         IN IF signals = <<>> THEN ReturnNone
            ELSE IF filtered = <<>> THEN ReturnList(<<>>)
            ELSE ReturnList(scan_rows(symbol, res_df, filtered))

\* the call of calculate_reversal_v3 the scan makes (default confirmation lag 0)
scan_calculate(bars, sett) ==
    calculate_reversal_v3(bars, sett.sensitivity, sett.calculation_method,
                          0, sett.sensitivity = "Custom", sett.custom_settings)

\* res_df is the value scan_calculate(bars, sett) has when the scan reaches it
scan_symbol_reversal_prefetched(symbol, bars, sett, res_df) ==
    IF Len(bars) = 0 \/ Len(bars) < ScanMinBars THEN ReturnNone
    ELSE scan_result_frame(symbol, bars, sett, res_df)

-----------------------------------------------------------------------------
(* The reversal specification: the data source delivers a Bar Series bar by  *)
(* bar; on the series as it stands the detector can be run (with any         *)
(* confirmation lag) and the symbol can be scanned (with any date range).    *)

\* bars the data source may deliver: <<close - BasePrice, half range>>
MoveSet == {<<0 - 300, 40>>, <<0, 0>>, <<300, 40>>}

MkBar(t, m) ==
    [t |-> t, high |-> BasePrice + m[1] + m[2], low |-> BasePrice + m[1] - m[2],
     close |-> BasePrice + m[1]]

\* custom settings at the low end of what the settings form accepts: ATR
\* multiplier 0.1, percentage threshold 0.001, fixed amount 0, both lengths 3
LowCustom == [atr_mult |-> 1, pct_threshold |-> 1, fixed_reversal |-> 0,
              atr_length |-> 3, avg_length |-> 3]

\* custom settings with every threshold candidate zero
ZeroCustom == [atr_mult |-> 0, pct_threshold |-> 0, fixed_reversal |-> 0,
               atr_length |-> 5, avg_length |-> 5]

MkSettings(sensitivity, calculation_method, custom_settings) ==
    [sensitivity |-> sensitivity, calculation_method |-> calculation_method,
     custom_settings |-> custom_settings, start_date |-> NoDate, end_date |-> NoDate]

Methods == {"average", "high_low"}

SettingsSet ==
    {MkSettings(s, m, None) : s \in {"Medium", "Very Low"}, m \in Methods}
    \cup {MkSettings("Custom", m, LowCustom) : m \in Methods}

ZeroSettingsSet == {MkSettings("Custom", m, ZeroCustom) : m \in Methods}

\* the date range a historical scan asks for: the days of the second and of
\* the fifth bar after the flat lead-in
StartDates == {NoDate, (PreLen + 1) \div TicksPerDay}
EndDates == {NoDate, (PreLen + 4) \div TicksPerDay}

\* the parts of the state a specification does not use
RevIdle == df = <<>> /\ settings = None /\ result_df = NotRun /\ records = NotRun
DmiIdle == dmi_bars = <<>> /\ dmi_length = 0 /\ dmi_out = NotRun /\ sig_out = NotRun
WmaIdle == wma_in = None /\ wma_out = NotRun
ScanIdle == scan_kind = "" /\ scan_df = None /\ scan_args = None /\ scan_log = <<>>
MktIdle == symbols = <<>> /\ bulk_data_dict = None /\ tasks = <<>> /\ results = NotRun

InitWith(S) ==
    /\ df = [k \in 1..PreLen |-> MkBar(k - 1, <<0, 0>>)]
    /\ settings \in S
    /\ result_df = NotRun
    /\ records = NotRun
    /\ DmiIdle /\ WmaIdle /\ ScanIdle /\ MktIdle

Init == InitWith(SettingsSet)

AppendBar ==
    /\ Len(df) < MaxBars
    /\ \E m \in MoveSet : df' = Append(df, MkBar(Len(df), m))
    /\ result_df' = NotRun
    /\ records' = NotRun
    /\ UNCHANGED <<settings, dmi_vars, wma_vars, scan_vars, mkt_vars>>

CalculateReversal ==
    /\ result_df = NotRun
    /\ \E lag \in 0..MaxLag :
          result_df' = [lag |-> lag,
                        out |-> calculate_reversal_v3(df, settings.sensitivity,
                                    settings.calculation_method, lag,
                                    settings.sensitivity = "Custom", settings.custom_settings)]
    /\ UNCHANGED <<df, settings, records, dmi_vars, wma_vars, scan_vars, mkt_vars>>

\* scan_symbol_reversal_prefetched on the series; result_df keeps res_df, the
\* frame the scan computed on the way
ScanSymbol ==
    /\ result_df = NotRun
    /\ result_df' = [lag |-> 0,
                     out |-> scan_calculate(df, [settings EXCEPT !.start_date = NoDate])]
    /\ \E sd \in StartDates, ed \in EndDates :
          LET sett == [settings EXCEPT !.start_date = sd, !.end_date = ed]
          IN records' = [settings |-> sett,
                         out |-> scan_symbol_reversal_prefetched("SYM", df, sett,
                                                                 result_df'.out)]
    /\ UNCHANGED <<df, settings, dmi_vars, wma_vars, scan_vars, mkt_vars>>

Next == AppendBar \/ CalculateReversal \/ ScanSymbol

Spec == Init /\ [][Next]_vars

\* the same program run with the all-zero custom thresholds
InitZero == InitWith(ZeroSettingsSet)
SpecZero == InitZero /\ [][Next]_vars

-----------------------------------------------------------------------------
(* Properties of the ZigZag detector and the reversal scan *)

\* the detector has run on df and returned a frame with columns
HasFrame == result_df # NotRun /\ ~result_df.out.empty

\* the arrays the detector's loop read on df
Inputs ==
    zigzag_inputs(df, settings.sensitivity, settings.calculation_method,
                  settings.sensitivity = "Custom", settings.custom_settings)

\* positions (1-based) of the non-zero entries of a Signal column
SignalBars(sig) == {k \in 1..Len(sig) : sig[k] # 0}

\* the non-zero entries of a Signal column, in bar order
NonZero(sig) == SelectSeq(sig, LAMBDA x : x # 0)

\* C1: the non-zero entries of Signal, in bar order, strictly alternate
\* between -1 (High pivot, Bearish) and +1 (Low pivot, Bullish).
C1_Alternation ==
    HasFrame =>
        LET nz == NonZero(result_df.out.Signal)
        IN /\ \A n \in 1..Len(nz) : nz[n] \in {0 - 1, 1}
           /\ \A n \in 1..(Len(nz) - 1) : nz[n] = 0 - nz[n + 1]

\* a preset run that confirmed at least three pivots
C1_Witness ==
    /\ HasFrame
    /\ settings.sensitivity = "Medium"
    /\ Len(NonZero(result_df.out.Signal)) >= 3

\* the pivots a frame reports at its first cnt bars: the kind, price and pivot
\* time columns over these bars (an empty frame reports no pivot)
PivotsBefore(frame, cnt) ==
    IF frame.empty
    THEN <<[k \in 1..cnt |-> 0], [k \in 1..cnt |-> 0], [k \in 1..cnt |-> NaN]>>
    ELSE <<SubSeq(frame.Signal, 1, cnt), SubSeq(frame.Signal_Price, 1, cnt),
           SubSeq(frame.Pivot_Time, 1, cnt)>>

\* the detector run on the first m bars of df alone, with the lag of result_df
RunOnPrefix(m) ==
    calculate_reversal_v3(SubSeq(df, 1, m), settings.sensitivity,
                          settings.calculation_method, result_df.lag,
                          settings.sensitivity = "Custom", settings.custom_settings)

\* the run on the first m bars and the run on all of df report the same pivots
\* at the bars before the prefix's last bar (index m-1) minus the lag
PrefixAgrees(m) ==
    LET cnt == Max2(0, (m - 1) - result_df.lag)
    IN PivotsBefore(RunOnPrefix(m), cnt) = PivotsBefore(result_df.out, cnt)

\* C2 as claimed: for any prefix of the series, the pivots reported on the
\* full series at bars before the prefix's last bar minus the lag are exactly
\* those reported when the detector runs on the prefix alone.
C2_AnyPrefix ==
    result_df # NotRun => \A m \in 1..Len(df) : PrefixAgrees(m)

\* C2 amended: the same, for any prefix of at least 50 bars (a shorter prefix
\* yields an empty frame, which reports no pivot at all).
C2_PrefixOfMinBars ==
    result_df # NotRun => \A m \in MinBars..Len(df) : PrefixAgrees(m)

\* a frame on a series with a proper prefix of at least 50 bars, and a pivot
\* in the compared range of that prefix
C2_Witness ==
    /\ HasFrame
    /\ Len(df) > MinBars
    /\ \E k \in SignalBars(result_df.out.Signal) : k - 1 < (MinBars - 1) - result_df.lag

\* bar indices (0-based) whose smoothed price the running extreme confirmed at
\* bar i was taken over: since the previous confirmation at bar i0 the bars
\* j - lag for j in i0..i; before the first confirmation bar 0 and the bars
\* j - lag for j in start_idx..i
Tracked(sig, i, lag) ==
    LET before == {j \in 0..(i - 1) : At(sig, j) # 0}
    IN IF before = {}
       THEN {0} \cup {j - lag : j \in start_idx(lag)..i}
       ELSE LET i0 == CHOOSE j \in before : \A x \in before : x <= j
            IN {j - lag : j \in i0..i}

\* the earliest bar of cand at which vals is largest (sign = 1) or smallest
\* (sign = -1)
ExtremeBar(vals, cand, sign) ==
    LET best == {c \in cand : \A d \in cand : sign * At(vals, d) <= sign * At(vals, c)}
    IN CHOOSE c \in best : \A d \in best : c <= d

\* every signal of the frame reports the running extreme and the time of the
\* bar where it was recorded
FrameReportsPivotExtreme ==
    HasFrame =>
        LET f == result_df.out
            inp == Inputs
        IN \A k \in SignalBars(f.Signal) :
              LET vals == IF f.Signal[k] = 0 - 1 THEN inp.priceh_vals ELSE inp.pricel_vals
                  pb == ExtremeBar(vals, Tracked(f.Signal, k - 1, result_df.lag),
                                   0 - f.Signal[k])
              IN /\ f.Signal_Price[k] = At(vals, pb)
                 /\ f.Pivot_Time[k] = At(df, pb).t

\* the bar (1-based) of df with timestamp t
BarAt(t) == CHOOSE k \in 1..Len(df) : df[k].t = t

\* every record of the scan is built from a signal of the frame: its type, its
\* pivot time, and price(Signal_Price of the frame) as 'Signal Price'
RecordsCarry(price(_)) ==
    (records # NotRun /\ ~records.out.isNone) =>
        \A n \in 1..Len(records.out.rows) :
            LET row == records.out.rows[n]
                k == BarAt(row.Signal_Time)
                f == result_df.out
            IN /\ f.Signal[k] # 0
               /\ row.Type = (IF f.Signal[k] = 1 THEN "Bullish" ELSE "Bearish")
               /\ row.Chart_Time = f.Pivot_Time[k]
               /\ row.Signal_Price = price(f.Signal_Price[k])

Same(x) == x

\* C3 as claimed: a signal reports the running extreme and the time of the bar
\* where it was recorded, and the scan's record carries that price as
\* 'Signal Price'.
C3_RecordCarriesExtreme ==
    FrameReportsPivotExtreme /\ RecordsCarry(Same)

\* C3 amended: a signal reports the running extreme and the time of the bar
\* where it was recorded, and the scan's record carries that price rounded to
\* two decimals as 'Signal Price'.
C3_RecordCarriesRoundedExtreme ==
    FrameReportsPivotExtreme /\ RecordsCarry(round2)

\* a scan that built a Bearish and a Bullish record, one of them with a price
\* other than the confirming bar's close
C3_Witness ==
    /\ records # NotRun /\ ~records.out.isNone
    /\ \E a, b \in 1..Len(records.out.rows) :
          /\ records.out.rows[a].Type = "Bearish"
          /\ records.out.rows[b].Type = "Bullish"
          /\ records.out.rows[a].Signal_Price
                 # round2(df[BarAt(records.out.rows[a].Signal_Time)].close)
          /\ records.out.rows[a].Chart_Time < records.out.rows[a].Signal_Time

\* C4: when the reversal amount is zero on every bar, the detector does not
\* confirm a pivot on every evaluated bar.
C4_NoThrashOnZeroAmount ==
    (HasFrame /\ \A k \in 1..Len(df) : Inputs.rev_amt_vals[k] = 0) =>
        \E k \in 1..Len(df) :
            /\ k - 1 >= start_idx(result_df.lag)
            /\ result_df.out.Signal[k] = 0

-----------------------------------------------------------------------------
(* indicators.py *)

\* IEEE infinities, next to NaN: what x / 0 gives for x # 0
Inf == 0 - NaN
NegInf == NaN + 1
IsInf(x) == x = Inf \/ x = NegInf

\* percent units per percent: DI, DX and ADX carry two decimals
PctScale == 10 * 10

FNeg(a) == IF IsNaN(a) THEN NaN ELSE IF a = Inf THEN NegInf ELSE IF a = NegInf THEN Inf ELSE 0 - a
FAdd(a, b) ==
    IF IsNaN(a) \/ IsNaN(b) THEN NaN
    ELSE IF IsInf(a) THEN (IF IsInf(b) /\ b # a THEN NaN ELSE a)
    ELSE IF IsInf(b) THEN b
    ELSE a + b
FSub(a, b) == FAdd(a, FNeg(b))
FAbs(a) == IF IsNaN(a) THEN NaN ELSE IF IsInf(a) THEN Inf ELSE Abs(a)
\* a * k for an integer k >= 0
FMulK(a, k) == IF IsNaN(a) THEN NaN ELSE IF IsInf(a) THEN (IF k = 0 THEN NaN ELSE a) ELSE a * k
\* a / k for an integer k > 0
FDivK(a, k) == IF IsNaN(a) \/ IsInf(a) THEN a ELSE a \div k
\* a / b * k for an integer k > 0
FRatio(a, b, k) ==
    IF IsNaN(a) \/ IsNaN(b) THEN NaN
    ELSE IF IsInf(a) THEN (IF IsInf(b) THEN NaN ELSE IF b >= 0 THEN a ELSE FNeg(a))
    ELSE IF IsInf(b) THEN 0
    ELSE IF b = 0 THEN (IF a = 0 THEN NaN ELSE IF a > 0 THEN Inf ELSE NegInf)
    ELSE (a * k) \div b
\* a > b: false when either side is NaN
FGt(a, b) == ~IsNaN(a) /\ ~IsNaN(b) /\ a > b

AllNaN(n) == [k \in 1..n |-> NaN]

\* Series.first_valid_index() as a position (0-based), NoIndex for None
NoIndex == 0 - 1
first_valid_index(s) ==
    LET valid == {i \in 0..(Len(s) - 1) : ~IsNaN(At(s, i))}
    IN IF valid = {} THEN NoIndex ELSE CHOOSE i \in valid : \A j \in valid : i <= j

\* Series.sum() and Series.mean(): NaN entries are skipped
RECURSIVE nansum(_)
nansum(s) ==
    IF s = <<>> THEN 0
    ELSE IF IsNaN(Head(s)) THEN nansum(Tail(s)) ELSE FAdd(Head(s), nansum(Tail(s)))

nanmean(s) ==
    LET cnt == Cardinality({k \in 1..Len(s) : ~IsNaN(s[k])})
    IN IF cnt = 0 THEN NaN ELSE FDivK(nansum(s), cnt)

\* the loop of wma: acc holds wma_series up to index Len(acc) - 1
RECURSIVE wma_loop(_, _, _)
wma_loop(series, length, acc) ==
    IF Len(acc) >= Len(series) THEN acc
    ELSE LET prev == acc[Len(acc)]
         IN wma_loop(series, length,
                Append(acc, FAdd(FSub(prev, FDivK(prev, length)), At(series, Len(acc)))))

\* Wilder's smoothing, raw-sum variant (the helper inside calculate_dmi)
wma(series, length) ==
    LET first_idx == first_valid_index(series)
    IN IF first_idx = NoIndex THEN AllNaN(Len(series))
       ELSE IF Len(series) <= first_idx + length THEN AllNaN(Len(series))
       ELSE wma_loop(series, length,
                Append(AllNaN(first_idx + length - 1),
                       nansum(SubSeq(series, first_idx + 1, first_idx + length))))

\* a true range that ignores the previous close
dmi_tr_RangeOnly(bars) ==
    Series(Len(bars), [k \in 1..Len(bars) |-> bars[k].high - bars[k].low])

\* tr: max(high - low, |high - prev_close|, |low - prev_close|); at bar 0 the
\* previous close is missing and the maximum skips it
dmi_tr(bars) ==
    Series(Len(bars), [k \in 1..Len(bars) |->
        IF k = 1 THEN bars[k].high - bars[k].low
        ELSE Max2(bars[k].high - bars[k].low,
                  Max2(Abs(bars[k].high - bars[k - 1].close),
                       Abs(bars[k].low - bars[k - 1].close)))])

\* plus_dm / minus_dm: the up move (down move) when it is the larger one and
\* positive, else 0 (also at bar 0, where the moves are NaN)
dmi_plus_dm(bars) ==
    Series(Len(bars), [k \in 1..Len(bars) |->
        IF k = 1 THEN 0
        ELSE LET up_move == bars[k].high - bars[k - 1].high
                 down_move == bars[k - 1].low - bars[k].low
             IN IF up_move > down_move /\ up_move > 0 THEN up_move ELSE 0])

dmi_minus_dm(bars) ==
    Series(Len(bars), [k \in 1..Len(bars) |->
        IF k = 1 THEN 0
        ELSE LET up_move == bars[k].high - bars[k - 1].high
                 down_move == bars[k - 1].low - bars[k].low
             IN IF down_move > up_move /\ down_move > 0 THEN down_move ELSE 0])

\* plus_di / minus_di = smoothed DM / smoothed TR * 100
dmi_di(smooth_dm, smooth_tr) ==
    Series(Len(smooth_tr), [k \in 1..Len(smooth_tr) |->
        FRatio(smooth_dm[k], smooth_tr[k], 100 * PctScale)])

\* dx = |plus_di - minus_di| / (plus_di + minus_di) * 100
dmi_dx(plus_di, minus_di) ==
    Series(Len(plus_di), [k \in 1..Len(plus_di) |->
        FRatio(FAbs(FSub(plus_di[k], minus_di[k])), FAdd(plus_di[k], minus_di[k]),
               100 * PctScale)])

\* the loop of the ADX: acc holds adx up to index Len(acc) - 1
RECURSIVE adx_loop(_, _, _)
adx_loop(dx, length, acc) ==
    IF Len(acc) >= Len(dx) THEN acc
    ELSE adx_loop(dx, length,
            Append(acc, FDivK(FAdd(FMulK(acc[Len(acc)], length - 1), At(dx, Len(acc))),
                              length)))

\* an ADX seeded by the sum of the first `length` DX values
dmi_adx_SumSeed(dx, length) ==
    LET first_dx == first_valid_index(dx)
    IN IF first_dx # NoIndex /\ Len(dx) > first_dx + length
       THEN adx_loop(dx, length,
                Append(AllNaN(first_dx + length - 1),
                       nansum(SubSeq(dx, first_dx + 1, first_dx + length))))
       ELSE AllNaN(Len(dx))

\* adx: seeded by the mean of the first `length` DX values, then Wilder smoothed
dmi_adx(dx, length) ==
    LET first_dx == first_valid_index(dx)
    IN IF first_dx # NoIndex /\ Len(dx) > first_dx + length
       THEN adx_loop(dx, length,
                Append(AllNaN(first_dx + length - 1),
                       nanmean(SubSeq(dx, first_dx + 1, first_dx + length))))
       ELSE AllNaN(Len(dx))

\* the series calculate_dmi computes past its guard
dmi_locals(bars, length) ==
    LET tr == dmi_tr(bars)
        plus_dm == dmi_plus_dm(bars)
        minus_dm == dmi_minus_dm(bars)
        smooth_tr == wma(tr, length)
        smooth_plus_dm == wma(plus_dm, length)
        smooth_minus_dm == wma(minus_dm, length)
        plus_di == dmi_di(smooth_plus_dm, smooth_tr)
        minus_di == dmi_di(smooth_minus_dm, smooth_tr)
        dx == dmi_dx(plus_di, minus_di)
    IN [tr |-> tr, plus_dm |-> plus_dm, minus_dm |-> minus_dm,
        smooth_tr |-> smooth_tr, smooth_plus_dm |-> smooth_plus_dm,
        smooth_minus_dm |-> smooth_minus_dm,
        plus_di |-> plus_di, minus_di |-> minus_di, dx |-> dx,
        adx |-> dmi_adx(dx, length)]

\* the columns calculate_dmi writes: '+DI', '-DI', 'ADX'
calculate_dmi(bars, length) ==
    IF Len(bars) = 0 \/ Len(bars) <= length
    THEN [PlusDI |-> AllNaN(Len(bars)), MinusDI |-> AllNaN(Len(bars)),
          ADX |-> AllNaN(Len(bars))]
    ELSE LET loc == dmi_locals(bars, length)
         IN [PlusDI |-> loc.plus_di, MinusDI |-> loc.minus_di, ADX |-> loc.adx]

\* a level check: every bar of a bullish (bearish) run is marked
detect_dmi_crossovers_Level(plus_di, minus_di) ==
    LET n == Len(plus_di)
    IN [Signal |-> Series(n, [k \in 1..n |->
                      IF FGt(minus_di[k], plus_di[k]) THEN 0 - 1
                      ELSE IF FGt(plus_di[k], minus_di[k]) THEN 1 ELSE 0]),
        Signal_Type |-> Series(n, [k \in 1..n |->
                      IF FGt(minus_di[k], plus_di[k]) THEN "Sell"
                      ELSE IF FGt(plus_di[k], minus_di[k]) THEN "Buy" ELSE "None"])]

\* the columns detect_dmi_crossovers writes: 'Signal', 'Signal_Type'
detect_dmi_crossovers(plus_di, minus_di) ==
    LET n == Len(plus_di)
        bullish(k) == FGt(plus_di[k], minus_di[k])
        prev_bullish(k) == k > 1 /\ bullish(k - 1)
        bearish(k) == FGt(minus_di[k], plus_di[k])
        prev_bearish(k) == k > 1 /\ bearish(k - 1)
        buy_signals(k) == bullish(k) /\ ~prev_bullish(k)
        sell_signals(k) == bearish(k) /\ ~prev_bearish(k)
    IN [Signal |-> Series(n, [k \in 1..n |->
                      IF sell_signals(k) THEN 0 - 1 ELSE IF buy_signals(k) THEN 1 ELSE 0]),
        Signal_Type |-> Series(n, [k \in 1..n |->
                      IF sell_signals(k) THEN "Sell"
                      ELSE IF buy_signals(k) THEN "Buy" ELSE "None"])]

-----------------------------------------------------------------------------
(* The DMI specification: a Bar Series is delivered bar by bar; on the      *)
(* series as it stands calculate_dmi and then detect_dmi_crossovers run     *)
(* (apply_all_indicators).                                                  *)

\* bars the data source may deliver: <<high, low, close>> in rupees
DmiShapes == {<<10, 10, 10>>, <<12, 10, 12>>, <<11, 9, 9>>, <<14, 13, 13>>}

MkDmiBar(t, b) ==
    [t |-> t, high |-> b[1] * PriceScale, low |-> b[2] * PriceScale,
     close |-> b[3] * PriceScale]

InitDMI ==
    /\ dmi_bars = <<>>
    /\ dmi_length \in 1..MaxDmiLen
    /\ dmi_out = NotRun
    /\ sig_out = NotRun
    /\ RevIdle /\ WmaIdle /\ ScanIdle /\ MktIdle

DmiAppendBar ==
    /\ dmi_out = NotRun
    /\ Len(dmi_bars) < MaxDmiBars
    /\ \E b \in DmiShapes : dmi_bars' = Append(dmi_bars, MkDmiBar(Len(dmi_bars), b))
    /\ UNCHANGED <<dmi_length, dmi_out, sig_out, rev_vars, wma_vars, scan_vars, mkt_vars>>

CalculateDmi ==
    /\ dmi_out = NotRun
    /\ dmi_out' = calculate_dmi(dmi_bars, dmi_length)
    /\ UNCHANGED <<dmi_bars, dmi_length, sig_out, rev_vars, wma_vars, scan_vars, mkt_vars>>

DetectDmiCrossovers ==
    /\ dmi_out # NotRun
    /\ sig_out = NotRun
    /\ sig_out' = detect_dmi_crossovers(dmi_out.PlusDI, dmi_out.MinusDI)
    /\ UNCHANGED <<dmi_bars, dmi_length, dmi_out, rev_vars, wma_vars, scan_vars, mkt_vars>>

NextDMI == DmiAppendBar \/ CalculateDmi \/ DetectDmiCrossovers

SpecDMI == InitDMI /\ [][NextDMI]_vars

-----------------------------------------------------------------------------
(* The Wilder smoothing specification: wma applied to a series that is       *)
(* defined from its first valid index on.                                    *)

WmaValues == {0, 3 * PriceScale, 10 * PriceScale}

WmaSeries ==
    LET defined == UNION {[1..n -> WmaValues] : n \in 0..MaxWmaLen}
    IN defined \cup {<<NaN>> \o s : s \in {d \in defined : Len(d) < MaxWmaLen}}

InitWma ==
    /\ wma_in \in {[S |-> s, N |-> n] : s \in WmaSeries, n \in 1..MaxWmaN}
    /\ wma_out = NotRun
    /\ RevIdle /\ DmiIdle /\ ScanIdle /\ MktIdle

ApplyWma ==
    /\ wma_out = NotRun
    /\ wma_out' = [W |-> wma(wma_in.S, wma_in.N)]
    /\ UNCHANGED <<wma_in, rev_vars, dmi_vars, scan_vars, mkt_vars>>

NextWma == ApplyWma

SpecWma == InitWma /\ [][NextWma]_vars

-----------------------------------------------------------------------------
(* Properties of the Wilder smoothing and of the DMI                         *)

DefinedIdx(s) == {i \in 1..Len(s) : ~IsNaN(s[i])}
AllUndefined(s) == DefinedIdx(s) = {}
\* the defined values of s, in order
DefinedPart(s) == SelectSeq(s, LAMBDA x : ~IsNaN(x))
\* the position (1-based) of the n-th defined value of s
NthDefined(s, n) ==
    CHOOSE i \in DefinedIdx(s) : Cardinality({j \in DefinedIdx(s) : j <= i}) = n
\* the first defined value of s is its last entry
FirstAtLast(s) == s # <<>> /\ DefinedIdx(s) = {Len(s)}

DmiRan == dmi_out # NotRun
\* calculate_dmi ran past its guard, so that its local series exist
DmiComputed == DmiRan /\ Len(dmi_bars) > dmi_length
Locals == dmi_locals(dmi_bars, dmi_length)

\* C6: with exactly lookback-1 bars an output is undefined everywhere, and
\* with exactly lookback bars its first defined value is at the last index;
\* the lookback is N for +DI and -DI and 2N-1 for ADX.  (The cases in which
\* the value at the last index is a 0/0 are left out.)
C6_WarmupBoundary ==
    DmiRan =>
        LET n == Len(dmi_bars)
            N == dmi_length
            ranged == \E k \in 1..n : dmi_tr(dmi_bars)[k] > 0
            moving == \A k \in 2..n :
                          dmi_plus_dm(dmi_bars)[k] + dmi_minus_dm(dmi_bars)[k] > 0
        IN /\ n = N - 1 => /\ AllUndefined(dmi_out.PlusDI)
                           /\ AllUndefined(dmi_out.MinusDI)
           /\ (n = N /\ ranged) => /\ FirstAtLast(dmi_out.PlusDI)
                                   /\ FirstAtLast(dmi_out.MinusDI)
           /\ n = 2 * N - 2 => AllUndefined(dmi_out.ADX)
           /\ (n = 2 * N - 1 /\ ranged /\ moving) => FirstAtLast(dmi_out.ADX)

C8_DxZeroWhenBothDiZero ==
    DmiComputed =>
        \A k \in 1..Len(dmi_bars) :
            (dmi_out.PlusDI[k] = 0 /\ dmi_out.MinusDI[k] = 0) =>
                /\ Locals.dx[k] = 0
                /\ (k > 1 /\ ~IsNaN(dmi_out.ADX[k - 1])) => ~IsNaN(dmi_out.ADX[k])

\* C9: every defined value of +DI, -DI and ADX lies in [0, 100].
C9_Bounds ==
    DmiRan =>
        \A k \in 1..Len(dmi_bars) :
            \A v \in {dmi_out.PlusDI[k], dmi_out.MinusDI[k], dmi_out.ADX[k]} :
                IsNaN(v) \/ (0 <= v /\ v <= 100 * PctScale)

\* a bar with +DI and ADX at 100, the top of the range, and a bar with -DI
\* strictly inside the range
C9_Witness ==
    /\ DmiComputed
    /\ \E k \in 1..Len(dmi_bars) :
          /\ dmi_out.PlusDI[k] = 100 * PctScale
          /\ dmi_out.ADX[k] = 100 * PctScale
    /\ \E k \in 1..Len(dmi_bars) :
          /\ ~IsNaN(dmi_out.MinusDI[k])
          /\ 0 < dmi_out.MinusDI[k] /\ dmi_out.MinusDI[k] < 100 * PctScale

\* C10: bar i is Buy exactly when +DI > -DI at i and +DI <= -DI at i-1, Sell
\* exactly when -DI > +DI at i and +DI >= -DI at i-1; a bar with +DI = -DI
\* has no signal; Signal is 1 on Buy, -1 on Sell and 0 elsewhere, so that no
\* bar is both.
C10_CrossoverStrict ==
    sig_out # NotRun =>
        LET p == dmi_out.PlusDI
            m == dmi_out.MinusDI
            both(k) == ~IsNaN(p[k]) /\ ~IsNaN(m[k])
        IN \A k \in 1..Len(p) :
              /\ sig_out.Signal_Type[k] = "Buy" <=>
                    /\ both(k) /\ p[k] > m[k]
                    /\ k > 1 /\ both(k - 1) /\ p[k - 1] <= m[k - 1]
              /\ sig_out.Signal_Type[k] = "Sell" <=>
                    /\ both(k) /\ m[k] > p[k]
                    /\ k > 1 /\ both(k - 1) /\ p[k - 1] >= m[k - 1]
              /\ (both(k) /\ p[k] = m[k]) => sig_out.Signal_Type[k] = "None"
              /\ sig_out.Signal[k] = 1 <=> sig_out.Signal_Type[k] = "Buy"
              /\ sig_out.Signal[k] = 0 - 1 <=> sig_out.Signal_Type[k] = "Sell"

\* the non-"None" entries of Signal_Type, in bar order
Fired(types) == SelectSeq(types, LAMBDA x : x # "None")

\* C11: the non-"None" signals of detect_dmi_crossovers strictly alternate
\* between Buy and Sell.
C11_StrictAlternation ==
    sig_out # NotRun =>
        LET f == Fired(sig_out.Signal_Type)
        IN \A k \in 1..(Len(f) - 1) : f[k] # f[k + 1]

\* bar k is neither bullish nor bearish: +DI = -DI, or a DI is undefined
Neutral(k) ==
    \/ IsNaN(dmi_out.PlusDI[k]) \/ IsNaN(dmi_out.MinusDI[k])
    \/ dmi_out.PlusDI[k] = dmi_out.MinusDI[k]

\* bars i < j carry two signals in a row: no signal between them
InARow(i, j) ==
    /\ i < j
    /\ sig_out.Signal_Type[i] # "None" /\ sig_out.Signal_Type[j] # "None"
    /\ \A k \in (i + 1)..(j - 1) : sig_out.Signal_Type[k] = "None"

\* C11 (amended): two signals in a row are a Buy and a Sell unless a bar with
\* +DI = -DI or with an undefined DI lies between them.
C11_AlternationBetweenNeutralBars ==
    sig_out # NotRun =>
        \A i, j \in 1..Len(dmi_bars) :
            (InARow(i, j) /\ sig_out.Signal_Type[i] = sig_out.Signal_Type[j]) =>
                \E k \in (i + 1)..(j - 1) : Neutral(k)

\* a Buy, a Sell and a Buy in a row, and two signals of one type in a row
\* around a neutral bar
C11_Witness ==
    /\ sig_out # NotRun
    /\ \E i, j \in 1..Len(dmi_bars) :
          InARow(i, j) /\ sig_out.Signal_Type[i] # sig_out.Signal_Type[j]
    /\ \E i, j \in 1..Len(dmi_bars) :
          /\ InARow(i, j) /\ sig_out.Signal_Type[i] = sig_out.Signal_Type[j]
          /\ \E k \in (i + 1)..(j - 1) : Neutral(k)

-----------------------------------------------------------------------------
(* scanner.py (the DMI scan) and adx_sar_scanner.py (the settings-based     *)
(* scan; the other settings-based scanners select their rows the same way)  *)

\* A Bar Series object (a DataFrame the caller holds): `absent` for None,
\* `malformed` when a price column is missing, `bars` its rows and `cols` the
\* indicator and signal columns written on it, NoCols as the loader made it.
NoCols == [none |-> TRUE]
DfObject(absent, malformed, bars) ==
    [absent |-> absent, malformed |-> malformed, bars |-> bars, cols |-> NoCols]
AbsentDf == DfObject(TRUE, FALSE, <<>>)

\* dmi_length = 14 and the minimum lengths of the scans
DmiScanLength == 14
DmiScanMinBars == 50
SettingsScanMinBars == 50
\* "Signal Time": "N/A"
NotAvailable == 0 - 2

\* apply_all_indicators as far as the scan reads it: the DMI columns and the
\* crossover columns, written on the frame
\* (the frame calculate_dmi returns is computed once, as c)
apply_all_indicators(bars, length) ==
    CHOOSE r \in
        {[none |-> FALSE, PlusDI |-> c.PlusDI, MinusDI |-> c.MinusDI, ADX |-> c.ADX,
          Signal |-> detect_dmi_crossovers(c.PlusDI, c.MinusDI).Signal,
          Signal_Type |-> detect_dmi_crossovers(c.PlusDI, c.MinusDI).Signal_Type] :
            c \in {calculate_dmi(bars, length)}} : TRUE

\* the positions of the rows of filtered_df
all_rows(bars) == Series(Len(bars), [k \in 1..Len(bars) |-> k])
\* (a variant that keeps every row up to the end of the window)
window_rows_NoStart(bars, start_date, end_date) ==
    SelectSeq(all_rows(bars), LAMBDA k : bars[k].t <= end_of_day(end_date))

window_rows(bars, start_date, end_date) ==
    SelectSeq(all_rows(bars),
              LAMBDA k : /\ bars[k].t >= start_of_day(start_date)
                         /\ bars[k].t <= end_of_day(end_date))

\* one signal record and the "no-signal" record of the DMI scan (the price,
\* time, type and ADX fields; DI and ADX already have two decimals)
dmi_record(symbol, bars, cols, k) ==
    [Stock |-> symbol,
     LTP |-> round2(bars[Len(bars)].close),
     Signal_Type |-> cols.Signal_Type[k],
     Signal_Time |-> bars[k].t,
     Signal_Price |-> round2(bars[k].close),
     ADX |-> cols.ADX[k]]

dmi_no_signal_record(symbol, bars, cols) ==
    [Stock |-> symbol,
     LTP |-> round2(bars[Len(bars)].close),
     Signal_Type |-> "None",
     Signal_Time |-> NotAvailable,
     Signal_Price |-> 0,
     ADX |-> cols.ADX[Len(bars)]]

\* a scan that cuts the date range out of the caller's object
dmi_df_after_Windowed(dfo, cols, start_date, end_date) ==
    [dfo EXCEPT !.cols = NoCols,
                !.bars = IF start_date # NoDate /\ end_date # NoDate
                         THEN SelectSeq(dfo.bars,
                                  LAMBDA b : /\ b.t >= start_of_day(start_date)
                                             /\ b.t <= end_of_day(end_date))
                         ELSE dfo.bars]

\* the caller's object after the scan: the columns are written on it, and the
\* date range is cut out of a copy
dmi_df_after(dfo, cols, start_date, end_date) == [dfo EXCEPT !.cols = cols]

\* the rows the scan keeps: the whole frame, or the date range when both
\* dates are given
dmi_filtered(bars, start_date, end_date) ==
    IF start_date # NoDate /\ end_date # NoDate
    THEN window_rows(bars, start_date, end_date)
    ELSE all_rows(bars)

\* the "no-signal" record is added when show_all is set, no signal was
\* recorded and the current bar's snapshot indicator is defined
with_show_all(results_for_symbol, show_all, snapshot, no_signal) ==
    IF show_all /\ results_for_symbol = <<>> /\ ~IsNaN(snapshot)
    THEN <<no_signal>>
    ELSE results_for_symbol

\* what a call leaves behind: the list returned (`none` when None is
\* returned instead), the caller's object, and the Signal column computed
Returned(ret, none, dfo, signal) ==
    [ret |-> ret, none |-> none, df |-> dfo, Signal |-> signal]

\* (a variant that turns away only an absent or empty frame)
insufficient_EmptyOnly(dfo, min_bars) == dfo.absent \/ Len(dfo.bars) = 0

\* df is None or df.empty or len(df) < min_bars
insufficient(dfo, min_bars) ==
    dfo.absent \/ Len(dfo.bars) = 0 \/ Len(dfo.bars) < min_bars

\* the list the DMI scan builds from filtered_df, the copy of the frame with
\* the columns cols
dmi_results(symbol, bars, cols, start_date, end_date, show_all) ==
    LET filtered_df == dmi_filtered(bars, start_date, end_date)
        signal_rows == SelectSeq(filtered_df, LAMBDA k : cols.Signal[k] # 0)
        results_for_symbol ==
            Series(Len(signal_rows), [n \in 1..Len(signal_rows) |->
                dmi_record(symbol, bars, cols, signal_rows[n])])
    IN IF filtered_df = <<>> THEN <<>>
       ELSE with_show_all(results_for_symbol, show_all, cols.ADX[Len(bars)],
                          dmi_no_signal_record(symbol, bars, cols))

scan_symbol_dmi_prefetched(symbol, dfo, start_date, end_date, show_all) ==
    IF insufficient(dfo, DmiScanMinBars)
    THEN Returned(<<>>, FALSE, dfo, <<>>)
    ELSE IF dfo.malformed THEN Returned(<<>>, FALSE, dfo, <<>>)
    ELSE CHOOSE r \in
             {Returned(dmi_results(symbol, dfo.bars, cols, start_date, end_date, show_all),
                       FALSE, dmi_df_after(dfo, cols, start_date, end_date), cols.Signal) :
                 cols \in {apply_all_indicators(dfo.bars, DmiScanLength)}} : TRUE

\* The settings-based scan.  What the strategy's entry conditions give on a
\* bar, and the bar's snapshot indicator, are functions of the bars alone;
\* a bar carries them as `sig` and `ind`.
strategy_columns(bars) ==
    [none |-> FALSE,
     Signal |-> Series(Len(bars), [k \in 1..Len(bars) |-> bars[k].sig]),
     Ind |-> Series(Len(bars), [k \in 1..Len(bars) |-> bars[k].ind])]

settings_record(symbol, bars, cols, k) ==
    [Stock |-> symbol,
     LTP |-> round2(bars[Len(bars)].close),
     Signal_Type |-> IF cols.Signal[k] = 1 THEN "Bullish" ELSE "Bearish",
     Signal_Time |-> bars[k].t,
     Signal_Price |-> bars[k].close,
     ADX |-> cols.Ind[k]]

settings_no_signal_record(symbol, bars, cols) ==
    [Stock |-> symbol,
     LTP |-> round2(bars[Len(bars)].close),
     Signal_Type |-> "None",
     Signal_Time |-> NotAvailable,
     Signal_Price |-> 0,
     ADX |-> cols.Ind[Len(bars)]]

\* a selection without the live-scan branch
settings_filtered_All(bars, start_date, end_date) ==
    IF start_date # NoDate /\ end_date # NoDate
    THEN window_rows(bars, start_date, end_date)
    ELSE all_rows(bars)

\* a live scan keeps the last row, a scan with both dates the date range,
\* and a scan with one date every row
settings_filtered(bars, start_date, end_date) ==
    IF start_date = NoDate /\ end_date = NoDate THEN <<Len(bars)>>
    ELSE IF start_date # NoDate /\ end_date # NoDate
    THEN window_rows(bars, start_date, end_date)
    ELSE all_rows(bars)

scan_symbol_prefetched(symbol, dfo, start_date, end_date, show_all) ==
    IF insufficient(dfo, SettingsScanMinBars)
    THEN Returned(<<>>, FALSE, dfo, <<>>)
    ELSE IF dfo.malformed THEN Returned(<<>>, FALSE, dfo, <<>>)
    ELSE CHOOSE r \in {
         LET bars == dfo.bars
             filtered_df == settings_filtered(bars, start_date, end_date)
             signal_rows == SelectSeq(filtered_df, LAMBDA k : cols.Signal[k] # 0)
             results_for_symbol ==
                 Series(Len(signal_rows), [n \in 1..Len(signal_rows) |->
                     settings_record(symbol, bars, cols, signal_rows[n])])
         IN Returned(IF filtered_df = <<>> THEN <<>>
                     ELSE with_show_all(results_for_symbol, show_all,
                                        cols.Ind[Len(bars)],
                                        settings_no_signal_record(symbol, bars, cols)),
                     FALSE, [dfo EXCEPT !.cols = cols], cols.Signal) :
             cols \in {strategy_columns(dfo.bars)}} : TRUE

\* scan_symbol_reversal_prefetched on a Bar Series object, with the default
\* settings and a date range
reversal_settings(start_date, end_date) ==
    [MkSettings("Medium", "average", None)
        EXCEPT !.start_date = start_date, !.end_date = end_date]

scan_symbol_reversal_object(symbol, dfo, start_date, end_date) ==
    IF dfo.absent \/ dfo.malformed THEN Returned(<<>>, TRUE, dfo, <<>>)
    ELSE CHOOSE r \in {
         LET sett == reversal_settings(start_date, end_date)
             out == scan_symbol_reversal_prefetched(symbol, dfo.bars, sett, res_df)
         IN Returned(out.rows, out.isNone, dfo,
                     IF res_df.empty THEN <<>> ELSE res_df.Signal) :
             res_df \in {scan_calculate(dfo.bars,
                                        reversal_settings(start_date, end_date))}} : TRUE

-----------------------------------------------------------------------------
(* The scan specification: the loader hands over a Bar Series object (or    *)
(* none), which grows bar by bar; then the per-symbol scan is called on it, *)
(* and called again on the same object.                                     *)

\* bars the data source may deliver: <<high, low, close, sig, ind>>
DmiScanShapes == {<<12, 10, 12, 0, NaN>>, <<11, 9, 9, 0, NaN>>, <<14, 13, 13, 0, NaN>>}
SettingsScanShapes ==
    {<<10, 10, 10, 0, 25 * PctScale>>, <<10, 10, 10, 1, 25 * PctScale>>,
     <<10, 10, 10, 0 - 1, 25 * PctScale>>, <<10, 10, 10, 0, NaN>>}

MkScanBar(t, b) ==
    [t |-> t, high |-> b[1] * PriceScale, low |-> b[2] * PriceScale,
     close |-> b[3] * PriceScale, sig |-> b[4], ind |-> b[5]]

\* the first PreLen bars: a halted symbol, a symbol that moved once and then
\* kept its range, and (settings-based scan) bars without a signal
FlatPrefix == [k \in 1..PreLen |-> MkScanBar(k - 1, <<10, 10, 10, 0, NaN>>)]
MovedPrefix ==
    [k \in 1..PreLen |->
        MkScanBar(k - 1, IF k = 1 THEN <<11, 9, 9, 0, NaN>> ELSE <<12, 10, 12, 0, NaN>>)]
QuietPrefix == [k \in 1..PreLen |-> MkScanBar(k - 1, <<10, 10, 10, 0, 25 * PctScale>>)]

ReversalPrefix == [k \in 1..PreLen |-> MkBar(k - 1, <<0, 0>>)]

ScanKinds == {"dmi", "settings", "reversal"}
ScanPrefixes(kind) ==
    IF kind = "dmi" THEN {FlatPrefix, MovedPrefix}
    ELSE IF kind = "settings" THEN {QuietPrefix} ELSE {ReversalPrefix}
\* the bar a data source may deliver at time t
ScanBars(kind, t) ==
    IF kind = "dmi" THEN {MkScanBar(t, b) : b \in DmiScanShapes}
    ELSE IF kind = "settings" THEN {MkScanBar(t, b) : b \in SettingsScanShapes}
    ELSE {MkBar(t, m) : m \in MoveSet}

\* number of calls of the scan on one object
MaxScans == 2

InitScan ==
    /\ scan_kind \in ScanKinds
    /\ scan_df \in {AbsentDf, DfObject(FALSE, FALSE, <<>>)}
                   \cup {DfObject(FALSE, m, b) : m \in BOOLEAN, b \in ScanPrefixes(scan_kind)}
    /\ scan_args \in [start_date : StartDates, end_date : EndDates, show_all : BOOLEAN]
    /\ scan_log = <<>>
    /\ RevIdle /\ DmiIdle /\ WmaIdle /\ MktIdle

ScanAppendBar ==
    /\ scan_log = <<>>
    /\ Len(scan_df.bars) >= PreLen
    /\ Len(scan_df.bars) < MaxBars
    /\ \E b \in ScanBars(scan_kind, Len(scan_df.bars)) :
          scan_df' = [scan_df EXCEPT !.bars = Append(@, b)]
    /\ UNCHANGED <<scan_kind, scan_args, scan_log, rev_vars, dmi_vars, wma_vars, mkt_vars>>

\* one call: the log keeps the object as it was handed over and the list returned
Called(r) ==
    /\ scan_log' = Append(scan_log, [r EXCEPT !.df = scan_df])
    /\ scan_df' = r.df
    /\ UNCHANGED <<scan_kind, scan_args, rev_vars, dmi_vars, wma_vars, mkt_vars>>

CallDmiScan ==
    /\ scan_kind = "dmi"
    /\ Len(scan_log) < MaxScans
    /\ Called(scan_symbol_dmi_prefetched("SYM", scan_df, scan_args.start_date,
                                         scan_args.end_date, scan_args.show_all))

CallSettingsScan ==
    /\ scan_kind = "settings"
    /\ Len(scan_log) < MaxScans
    /\ Called(scan_symbol_prefetched("SYM", scan_df, scan_args.start_date,
                                     scan_args.end_date, scan_args.show_all))

CallReversalScan ==
    /\ scan_kind = "reversal"
    /\ Len(scan_log) < MaxScans
    /\ Called(scan_symbol_reversal_object("SYM", scan_df, scan_args.start_date,
                                          scan_args.end_date))

NextScan == ScanAppendBar \/ CallDmiScan \/ CallSettingsScan \/ CallReversalScan

SpecScan == InitScan /\ [][NextScan]_vars

-----------------------------------------------------------------------------
(* Properties of the per-symbol scans                                        *)

\* C12: without a start_date and an end_date exactly the last bar of the
\* series is evaluated: every record is a signal of the last bar.
C12_LiveScanLastBarOnly ==
    (/\ records # NotRun
     /\ records.settings.start_date = NoDate
     /\ records.settings.end_date = NoDate) =>
        \A n \in 1..Len(records.out.rows) :
            records.out.rows[n].Signal_Time = df[Len(df)].t

\* the calls logged so far
Calls == {scan_log[n] : n \in 1..Len(scan_log)}
\* the object handed to call e has enough well-formed bars to be scanned
Scannable(e) ==
    ~e.df.absent /\ ~e.df.malformed /\ Len(e.df.bars) >= SettingsScanMinBars
LastBar(e) == e.df.bars[Len(e.df.bars)]
\* the signal records of a returned list
SignalRecords(ret) ==
    IF scan_kind = "reversal" THEN ret
    ELSE SelectSeq(ret, LAMBDA r : r.Signal_Type # "None")
IsLive == scan_args.start_date = NoDate /\ scan_args.end_date = NoDate
IsRanged == scan_args.start_date # NoDate /\ scan_args.end_date # NoDate

\* C13: a settings-based scan without dates evaluates exactly the last bar:
\* it returns a signal record if and only if the last bar's Signal is not 0,
\* that record's Signal Time is the last bar's timestamp, and no record
\* refers to an earlier bar.
C13_SettingsLiveScanLastBar ==
    (scan_kind = "settings" /\ IsLive) =>
        \A e \in Calls :
            Scannable(e) =>
                LET recs == SignalRecords(e.ret)
                IN /\ Len(recs) = (IF LastBar(e).sig # 0 THEN 1 ELSE 0)
                   /\ \A n \in 1..Len(recs) : recs[n].Signal_Time = LastBar(e).t

\* a live settings-based scan of a series with a signal on its last bar and
\* a signal on an earlier bar, returning the one record of the last bar
C13_Witness ==
    /\ scan_kind = "settings" /\ IsLive
    /\ \E e \in Calls :
          /\ Scannable(e)
          /\ LastBar(e).sig # 0
          /\ \E k \in 1..(Len(e.df.bars) - 1) : e.df.bars[k].sig # 0
          /\ Len(e.ret) = 1
          /\ e.ret[1].Signal_Time = LastBar(e).t

\* the bars of call e inside the window [start-of-day(start_date),
\* end-of-day(end_date)]
InWindow(e, k) ==
    /\ start_of_day(scan_args.start_date) <= e.df.bars[k].t
    /\ e.df.bars[k].t <= end_of_day(scan_args.end_date)
\* the timestamps, in series order, of the bars in the window whose Signal is
\* not 0
WindowSignalTimes(e) ==
    LET n == Len(e.df.bars)
        idx == SelectSeq([k \in 1..n |-> k],
                         LAMBDA k : InWindow(e, k) /\ e.Signal[k] # 0)
    IN [i \in 1..Len(idx) |-> e.df.bars[idx[i]].t]
SignalTimes(ret) ==
    LET recs == SignalRecords(ret) IN [i \in 1..Len(recs) |-> recs[i].Signal_Time]

C15_ShowAllNoSignalRecord ==
    (scan_kind \in {"dmi", "settings"} /\ scan_args.show_all) =>
        \A e \in Calls :
            (Scannable(e) /\ SignalRecords(e.ret) = <<>>) =>
                /\ Len(e.ret) = 1
                /\ e.ret[1].Signal_Type = "None"
                /\ e.ret[1].LTP = round2(LastBar(e).close)

\* C18: a per-symbol scan leaves the caller's Bar Series as it was: the same
\* columns with the same values as before the call.
C18_BarSeriesReadOnly == \A e \in Calls : scan_df = e.df

\* the set of Signal records a call returned
RecordSet(e) == {e.ret[n] : n \in 1..Len(e.ret)}

\* C19: scanning the same Bar Series with the same settings again, on the
\* very object the first scan was given, returns the same set of records.
C19_Idempotence ==
    \A m, n \in 1..Len(scan_log) :
        /\ RecordSet(scan_log[m]) = RecordSet(scan_log[n])
        /\ scan_log[m].none = scan_log[n].none

\* a second scan on the object the first scan wrote its columns on, both
\* returning records
C19_Witness ==
    /\ Len(scan_log) >= 2
    /\ scan_log[2].df # scan_log[1].df
    /\ scan_log[2].df.bars = scan_log[1].df.bars
    /\ RecordSet(scan_log[1]) # {}
    /\ RecordSet(scan_log[2]) = RecordSet(scan_log[1])

\* the frame handed to call e is absent, empty or shorter than the minimum
Insufficient(e) == e.df.absent \/ Len(e.df.bars) < SettingsScanMinBars

\* C20: a scan of an absent, empty or too short series returns an empty (or
\* absent) result: no signal record, and no "no-signal" record even with
\* show_all.
C20_InsufficientDataEmptyResult ==
    \A e \in Calls : Insufficient(e) => e.ret = <<>>

\* a scan with show_all of a well-formed series one bar short of the minimum
\* returned nothing
C20_Witness ==
    /\ scan_args.show_all
    /\ \E e \in Calls :
          /\ ~e.df.absent /\ ~e.df.malformed
          /\ Len(e.df.bars) = SettingsScanMinBars - 1
          /\ e.ret = <<>>

-----------------------------------------------------------------------------
(* scan_market: the frames of all symbols are fetched into bulk_data_dict,   *)
(* one task per entry of the symbols list is submitted to a pool of worker   *)
(* threads, and the caller collects the tasks' lists as they complete.  A    *)
(* task of the DMI scan runs statement by statement on the frame             *)
(* bulk_data_dict.get(sym) hands it; a task of nse_scanner runs              *)
(* check_conditions, which only reads its frame.                              *)

\* nse_scanner.check_conditions: what the entry conditions give on a bar is a
\* function of the bars alone and carried as `sig`; intraday bars are
\* checked for the last date of the series, within the last 75 bars
NseMinBars == 50
NseCandidates == 75
nse_record(symbol, bars, k) ==
    [Stock |-> symbol, LTP |-> round2(bars[k].close), Signal_Time |-> bars[k].t]

check_conditions(dfo, symbol) ==
    IF dfo.absent THEN [raised |-> FALSE, ret |-> <<>>]
    ELSE IF Len(dfo.bars) = 0 \/ Len(dfo.bars) < NseMinBars
    THEN [raised |-> FALSE, ret |-> <<>>]
    ELSE IF dfo.malformed THEN [raised |-> TRUE, ret |-> <<>>]
    ELSE LET bars == dfo.bars
             n == Len(bars)
             last_date == bars[n].t \div TicksPerDay
             indices_to_check ==
                 SelectSeq(all_rows(bars),
                           LAMBDA k : /\ k > n - NseCandidates
                                      /\ bars[k].t \div TicksPerDay = last_date)
             hits == SelectSeq(indices_to_check, LAMBDA k : bars[k].sig = 1)
         IN [raised |-> FALSE,
             ret |-> Series(Len(hits), [i \in 1..Len(hits) |->
                                           nse_record(symbol, bars, hits[i])])]

\* the statements of a DMI scan task that write on the frame it was handed,
\* in program order, and the copy that follows them
DmiTaskSteps ==
    <<"calculate_dmi", "signal_reset", "signal_buy", "signal_sell",
      "type_reset", "type_buy", "type_sell", "copy">>
next_step(pc) ==
    LET k == CHOOSE i \in 1..Len(DmiTaskSteps) : DmiTaskSteps[i] = pc
    IN DmiTaskSteps[k + 1]

\* the columns of the frame after the statement pc of a task has run on it
write_columns(dfo, pc) ==
    CHOOSE r \in {
    LET n == Len(dfo.bars)
        old == IF dfo.cols = NoCols
               THEN [none |-> FALSE, PlusDI |-> <<>>, MinusDI |-> <<>>, ADX |-> <<>>,
                     Signal |-> <<>>, Signal_Type |-> <<>>]
               ELSE dfo.cols
    IN IF pc = "calculate_dmi"
       THEN [old EXCEPT !.PlusDI = calc.PlusDI, !.MinusDI = calc.MinusDI,
                        !.ADX = calc.ADX]
       ELSE IF pc = "signal_reset"
       THEN [old EXCEPT !.Signal = Series(n, [k \in 1..n |-> 0])]
       ELSE IF pc = "signal_buy"
       THEN [old EXCEPT !.Signal = Series(n, [k \in 1..n |->
                                      IF calc.Signal[k] = 1 THEN 1 ELSE @[k]])]
       ELSE IF pc = "signal_sell"
       THEN [old EXCEPT !.Signal = Series(n, [k \in 1..n |->
                                      IF calc.Signal[k] = 0 - 1 THEN 0 - 1 ELSE @[k]])]
       ELSE IF pc = "type_reset"
       THEN [old EXCEPT !.Signal_Type = Series(n, [k \in 1..n |-> "None"])]
       ELSE IF pc = "type_buy"
       THEN [old EXCEPT !.Signal_Type = Series(n, [k \in 1..n |->
                                      IF calc.Signal[k] = 1 THEN "Buy" ELSE @[k]])]
       ELSE [old EXCEPT !.Signal_Type = Series(n, [k \in 1..n |->
                                      IF calc.Signal[k] = 0 - 1 THEN "Sell" ELSE @[k]])] :
        calc \in {apply_all_indicators(dfo.bars, DmiScanLength)}} : TRUE

\* the symbols lists and the frames of a scan request
MarketSymbols == {"A", "B"}
SymbolLists == {<<"A">>, <<"A", "B">>, <<"B", "A">>, <<"A", "A">>}
MarketBars ==
    FlatPrefix \o [k \in 1..(DmiScanMinBars - PreLen) |->
                      MkScanBar(PreLen + k - 1, <<12, 10, 12, 1, NaN>>)]
MarketFrames ==
    {AbsentDf, DfObject(FALSE, FALSE, FlatPrefix),
     DfObject(FALSE, TRUE, MarketBars), DfObject(FALSE, FALSE, MarketBars)}

NewTask(sym) == [sym |-> sym, pc |-> "submitted", ret |-> <<>>, raised |-> FALSE]

InitMarket ==
    /\ RevIdle /\ DmiIdle /\ WmaIdle
    /\ scan_kind \in {"dmi", "nse"}
    /\ scan_df = None
    /\ scan_args = [start_date |-> NoDate, end_date |-> NoDate, show_all |-> FALSE]
    /\ scan_log = <<>>
    /\ symbols \in SymbolLists
    /\ bulk_data_dict \in [MarketSymbols -> MarketFrames]
    /\ tasks = [i \in 1..Len(symbols) |-> NewTask(symbols[i])]
    /\ results = [rows |-> <<>>, completed |-> 0, progress |-> <<>>,
                  raised |-> FALSE, returned |-> FALSE]

MarketFixed == UNCHANGED <<rev_vars, dmi_vars, wma_vars, scan_vars, symbols>>

\* scanner.py:19-24: the guard of a DMI task, and the exception malformed
\* bars raise on the first column read, caught by the task
TaskGuard(i) ==
    /\ scan_kind = "dmi"
    /\ tasks[i].pc = "submitted"
    /\ LET dfo == bulk_data_dict[tasks[i].sym]
       IN tasks' = [tasks EXCEPT ![i].pc =
                        IF insufficient(dfo, DmiScanMinBars) \/ dfo.malformed
                        THEN "done" ELSE "calculate_dmi"]
    /\ UNCHANGED <<bulk_data_dict, results>>
    /\ MarketFixed

\* one column assignment on the frame the task was handed
TaskWrite(i) ==
    /\ tasks[i].pc \in {DmiTaskSteps[k] : k \in 1..(Len(DmiTaskSteps) - 1)}
    /\ bulk_data_dict' =
           [bulk_data_dict EXCEPT ![tasks[i].sym].cols =
               write_columns(bulk_data_dict[tasks[i].sym], tasks[i].pc)]
    /\ tasks' = [tasks EXCEPT ![i].pc = next_step(@)]
    /\ UNCHANGED results
    /\ MarketFixed

\* scanner.py:32-115: filtered_df = df.copy() and the list built from it
TaskCopy(i) ==
    /\ tasks[i].pc = "copy"
    /\ LET dfo == bulk_data_dict[tasks[i].sym]
       IN tasks' = [tasks EXCEPT
                       ![i].pc = "done",
                       ![i].ret = dmi_results(tasks[i].sym, dfo.bars, dfo.cols,
                                              scan_args.start_date, scan_args.end_date,
                                              scan_args.show_all)]
    /\ UNCHANGED <<bulk_data_dict, results>>
    /\ MarketFixed

\* a task of nse_scanner
TaskCheckConditions(i) ==
    /\ scan_kind = "nse"
    /\ tasks[i].pc = "submitted"
    /\ LET r == check_conditions(bulk_data_dict[tasks[i].sym], tasks[i].sym)
       IN tasks' = [tasks EXCEPT ![i].pc = "done", ![i].ret = r.ret,
                                 ![i].raised = r.raised]
    /\ UNCHANGED <<bulk_data_dict, results>>
    /\ MarketFixed

\* the caller takes a completed task: future.result() raises what the task
\* raised, otherwise a non-empty list is added to the results and
\* progress_callback is called with the count (scanner.py counts and calls
\* twice for each task); progress holds the counts the callback was given
Collect(i) ==
    /\ tasks[i].pc = "done"
    /\ ~results.raised /\ ~results.returned
    /\ tasks' = [tasks EXCEPT ![i].pc = "collected"]
    /\ results' =
           IF tasks[i].raised THEN [results EXCEPT !.raised = TRUE]
           ELSE [results EXCEPT
                    !.rows = @ \o tasks[i].ret,
                    !.completed = @ + (IF scan_kind = "dmi" THEN 2 ELSE 1),
                    !.progress = IF scan_kind = "dmi"
                                 THEN @ \o <<results.completed + 1, results.completed + 2>>
                                 ELSE Append(@, results.completed + 1)]
    /\ UNCHANGED bulk_data_dict
    /\ MarketFixed

\* return pd.DataFrame(results)
ReturnResults ==
    /\ \A i \in 1..Len(tasks) : tasks[i].pc = "collected"
    /\ ~results.raised /\ ~results.returned
    /\ results' = [results EXCEPT !.returned = TRUE]
    /\ UNCHANGED <<bulk_data_dict, tasks>>
    /\ MarketFixed

NextMarket ==
    \/ \E i \in 1..Len(tasks) :
          TaskGuard(i) \/ TaskWrite(i) \/ TaskCopy(i) \/ TaskCheckConditions(i)
              \/ Collect(i)
    \/ ReturnResults

SpecMarket == InitMarket /\ [][NextMarket]_vars

-----------------------------------------------------------------------------
(* Properties of scan_market                                                  *)

RECURSIVE CountIn(_, _)
CountIn(seq, r) ==
    IF seq = <<>> THEN 0
    ELSE (IF Head(seq) = r THEN 1 ELSE 0) + CountIn(Tail(seq), r)
\* the frame of task i cannot be scanned: missing, too short or malformed
FailedScan(i) ==
    LET dfo == bulk_data_dict[tasks[i].sym]
    IN insufficient(dfo, DmiScanMinBars) \/ dfo.malformed
TaskRecords == UNION {{tasks[i].ret[n] : n \in 1..Len(tasks[i].ret)} : i \in 1..Len(tasks)}
RECURSIVE SumCount(_, _)
SumCount(i, r) ==
    IF i = 0 THEN 0 ELSE CountIn(tasks[i].ret, r) + SumCount(i - 1, r)

\* C16: no task's failure aborts the batch; a task whose scan fails adds
\* no record; and what scan_market returns holds the records of the tasks'
\* lists, each as often as the lists hold it, whatever the completion order.
C16_BatchFailureIsolation ==
    /\ ~results.raised
    /\ \A i \in 1..Len(tasks) :
          (FailedScan(i) /\ tasks[i].pc \in {"done", "collected"}) => tasks[i].ret = <<>>
    /\ results.returned =>
          /\ \A n \in 1..Len(results.rows) : results.rows[n] \in TaskRecords
          /\ \A r \in TaskRecords : CountIn(results.rows, r) = SumCount(Len(tasks), r)

\* the list the scan of task i returns when it runs alone on its frame
AloneResult(i) ==
    LET dfo == bulk_data_dict[tasks[i].sym]
    IN IF scan_kind = "dmi"
       THEN scan_symbol_dmi_prefetched(tasks[i].sym, dfo, scan_args.start_date,
                                       scan_args.end_date, scan_args.show_all).ret
       ELSE check_conditions(dfo, tasks[i].sym).ret

\* C17: whatever the symbols list and the interleaving of the tasks, every
\* task returns what its scan returns when it runs alone: no task's result
\* depends on another task.
C17_NoInterference ==
    \A i \in 1..Len(tasks) :
        tasks[i].pc \in {"done", "collected"} => tasks[i].ret = AloneResult(i)

-----------------------------------------------------------------------------
(* sma_rsi_indicators.py: the exponential average *)

\* Series.ewm(span=length, adjust=False).mean(): y[0] = x[0] and
\* y[i] = y[i-1] + 2/(length+1) * (x[i] - y[i-1])
RECURSIVE ewm_run(_, _, _)
ewm_run(s, length, acc) ==
    LET i == Len(acc)
    IN IF i = Len(s) THEN acc
       ELSE ewm_run(s, length,
                Append(acc, IF i = 0 THEN At(s, 0)
                            ELSE ((length - 1) * acc[i] + 2 * At(s, i)) \div (length + 1)))

\* sma_rsi_indicators.calculate_ema: an all-NaN series when the frame is
\* shorter than length
sma_rsi_calculate_ema(bars, length) ==
    IF Len(bars) = 0 \/ Len(bars) < length THEN AllNaN(Len(bars))
    ELSE ewm_run(Series(Len(bars), [k \in 1..Len(bars) |-> bars[k].close]), length, <<>>)

\* EMA21 of apply_all_indicators
SmaRsiEmaLength == 21

-----------------------------------------------------------------------------
(* Properties of the indicator series *)

\* the smoothed prices and the reversal amount of df before fillna, and the
\* ATR the reversal amount is built from
RawInputs ==
    LET is_custom == settings.sensitivity = "Custom"
        sens == get_sensitivity_settings(settings.sensitivity, is_custom,
                                         settings.custom_settings)
        use_custom == is_custom /\ settings.custom_settings # None
        p == zigzag_prices(df, settings.calculation_method, is_custom,
                           settings.custom_settings)
    IN [priceh |-> p.priceh, pricel |-> p.pricel,
        atr |-> calculate_atr(df, IF use_custom THEN settings.custom_settings.atr_length
                                  ELSE DefaultAtrLength),
        reversal_amount |-> reversal_amount(df, is_custom, settings.custom_settings,
                                            sens[1], sens[2])]

\* C21: a derived series holds "not available" at every position before its
\* warm-up: the smoothed high and low the detector reads where the EMA is
\* not yet defined, the reversal amount where its ATR is not yet defined,
\* and the EMA21 of the SMA-RSI indicators before bar 20.
C21_NotAvailableBeforeWarmup ==
    HasFrame =>
        LET raw == RawInputs
            inp == Inputs
            ema21 == sma_rsi_calculate_ema(df, SmaRsiEmaLength)
        IN \A k \in 1..Len(df) :
              /\ IsNaN(raw.priceh[k]) => IsNaN(inp.priceh_vals[k])
              /\ IsNaN(raw.pricel[k]) => IsNaN(inp.pricel_vals[k])
              /\ IsNaN(raw.atr[k]) => IsNaN(inp.rev_amt_vals[k])
              /\ k < SmaRsiEmaLength => IsNaN(ema21[k])

-----------------------------------------------------------------------------
(* The shape specification: calculate_reversal_v3 runs, with every preset    *)
(* and both calculation methods, on a series of a given shape: a V (a fall   *)
(* of 10% followed by a rise of 10%) or a strictly increasing ramp.          *)

\* number of bars of a shape, the bars at which a V may have its trough, and
\* the half ranges (high - close = close - low) of its bars
ShapeBars == 60
TroughBars == {10, 25, 40}
HalfRanges == {0, 2 * PriceScale}
\* the rises per bar of a ramp
RampSteps == {1, PriceScale, 100 * PriceScale}

ShapeBar(i, close, half) ==
    [t |-> i, high |-> close + half, low |-> close - half, close |-> close]

\* n bars falling by a tenth from BasePrice down to bar `trough` and rising
\* by a tenth of the trough price up to the last bar
VShape(n, trough, half) ==
    LET bottom == BasePrice - BasePrice \div 10
    IN [k \in 1..n |->
          LET i == k - 1
          IN ShapeBar(i,
                 IF i <= trough THEN BasePrice - ((BasePrice \div 10) * i) \div trough
                 ELSE bottom + ((bottom \div 10) * (i - trough)) \div (n - 1 - trough),
                 half)]

\* n bars with high = low = close, each `step` above the one before
Ramp(n, step) == [k \in 1..n |-> ShapeBar(k - 1, BasePrice + step * (k - 1), 0)]

VShapes == {VShape(ShapeBars, tr, h) : tr \in TroughBars, h \in HalfRanges}
Ramps == {Ramp(ShapeBars, st) : st \in RampSteps}

Presets == {"Very High", "High", "Medium", "Low", "Very Low"}
PresetSettings == {MkSettings(s, m, None) : s \in Presets, m \in Methods}

InitShape ==
    /\ df \in VShapes \cup Ramps
    /\ settings \in PresetSettings
    /\ result_df = NotRun
    /\ records = NotRun
    /\ DmiIdle /\ WmaIdle /\ ScanIdle /\ MktIdle

NextShape == CalculateReversal

SpecShape == InitShape /\ [][NextShape]_vars

-----------------------------------------------------------------------------
(* Properties of the detector on shapes *)

\* the bar (0-based) with the lowest close
TroughOf(bars) ==
    CHOOSE i \in 0..(Len(bars) - 1) : \A j \in 0..(Len(bars) - 1) : At(bars, i).close <= At(bars, j).close

\* the bars (1-based) at which a Low pivot is confirmed
LowPivots(frame) == {k \in 1..Len(frame.Signal) : frame.Signal[k] = 1}

\* C22: on a V (a fall of 10% then a rise of 10%) the detector, run without
\* confirmation lag, confirms exactly one Low pivot, and its recorded time is
\* the trough bar.
C22_VShapeOneLowPivotAtTrough ==
    (HasFrame /\ df \in VShapes /\ result_df.lag = 0) =>
        /\ Cardinality(LowPivots(result_df.out)) = 1
        /\ \A k \in LowPivots(result_df.out) :
              result_df.out.Pivot_Time[k] = At(df, TroughOf(df)).t

\* C23: on a strictly increasing ramp of bars with high = low = close the
\* detector confirms no pivot at any bar, for every preset and both
\* calculation methods.
C23_RampNoPivot ==
    (HasFrame /\ df \in Ramps) =>
        \A k \in 1..Len(df) : result_df.out.Signal[k] = 0

\* the detector has run on a ramp whose reversal amount is once the fixed
\* amount and once a larger candidate
C23_Witness ==
    /\ HasFrame /\ df \in Ramps
    /\ \E k \in 1..Len(df) : Inputs.rev_amt_vals[k] > DefaultFixedAmount
    /\ \A k \in 1..Len(df) : result_df.out.Signal[k] = 0

-----------------------------------------------------------------------------
(* Properties of the ZigZag loop *)

\* the states of the loop of the run result_df holds: LoopStates[1] is the
\* state before the loop; in a sequence st of them StateBefore(st, i) is the
\* state before bar i and StateAfter(st, i) the state after it
LoopStates == ZigZagLoop(Inputs, result_df.lag)
StateBefore(st, i) == st[i - start_idx(result_df.lag) + 1]
StateAfter(st, i) == st[i - start_idx(result_df.lag) + 2]
EvaluatedBars == start_idx(result_df.lag)..(Len(df) - 1)

\* the rule of one bar in TrackingHigh (sign = 1) or TrackingLow (sign = -1):
\* run / run_idx are the running extreme and its index before the bar, cur
\* the current smoothed price on the extreme's side, opp the one on the
\* other side, rev the bar's reversal amount, sig its Signal, dir2 the
\* direction after the bar
RuleAt(i, sign, run, run_idx, cur, opp, rev, sig, dir2, run2, run_idx2, seed2, seed_idx2) ==
    LET lag == result_df.lag
        ext == sign * cur > sign * run
        new_run == IF ext THEN cur ELSE run
        new_idx == IF ext THEN i - lag ELSE run_idx
        confirmed == sign * (new_run - opp) >= rev
    IN /\ run2 = new_run /\ run_idx2 = new_idx
       /\ confirmed <=> sig = 0 - sign
       /\ ~confirmed <=> sig = 0
       /\ confirmed => /\ dir2 = 0 - sign
                        /\ seed2 = opp /\ seed_idx2 = i - lag
       /\ ~confirmed => dir2 = sign

\* C24: at each evaluated bar, in TrackingHigh the running high is first
\* extended (value and index) when the current smoothed high is strictly
\* greater; a High pivot is confirmed exactly when running high minus current
\* smoothed low reaches the bar's reversal amount; on confirmation Signal is
\* -1 at that bar and the machine is in TrackingLow with the running low
\* seeded by the current smoothed low, otherwise it stays in TrackingHigh.
\* TrackingLow is the mirror image.  A bar confirms at most one pivot.
C24_TransitionRule ==
    HasFrame =>
        \A inp \in {Inputs} : \A st \in {ZigZagLoop(inp, result_df.lag)} :
            \A i \in EvaluatedBars :
                LET s == StateBefore(st, i)
                    t == StateAfter(st, i)
                    ph == At(inp.priceh_vals, i - result_df.lag)
                    pl == At(inp.pricel_vals, i - result_df.lag)
                    rev == At(inp.rev_amt_vals, i)
                    sig == At(result_df.out.Signal, i)
                IN IF s.direction = 1
                   THEN RuleAt(i, 1, s.zhigh, s.zhigh_idx, ph, pl, rev, sig,
                               t.direction, t.zhigh, t.zhigh_idx, t.zlow, t.zlow_idx)
                   ELSE RuleAt(i, 0 - 1, s.zlow, s.zlow_idx, pl, ph, rev, sig,
                               t.direction, t.zlow, t.zlow_idx, t.zhigh, t.zhigh_idx)

\* a run in which a High pivot and a Low pivot were confirmed, the running
\* low was extended on a bar that confirmed the Low pivot, and a bar in
\* TrackingHigh confirmed nothing
C24_Witness ==
    /\ HasFrame
    /\ \E st \in {LoopStates} : \E i, j, k \in EvaluatedBars :
          /\ At(result_df.out.Signal, i) = 0 - 1
          /\ At(result_df.out.Signal, j) = 1
          /\ StateAfter(st, j).zlow < StateBefore(st, j).zlow
          /\ StateBefore(st, k).direction = 1 /\ At(result_df.out.Signal, k) = 0

\* C28: in every state of the loop the running high (low) is the smoothed
\* high (low) at its recorded index; the recorded index is at most the
\* current bar index minus the confirmation lag; a tie with the running
\* extreme leaves its recorded index where it was; and every signal's
\* Pivot_Time is at or before the time of the bar that confirmed it.
C28_RunningExtremeInvariants ==
    HasFrame =>
        \A inp \in {Inputs} : \A st \in {ZigZagLoop(inp, result_df.lag)} :
            /\ st[1].zhigh_idx = 0 /\ st[1].zlow_idx = 0
            /\ \A n \in 1..Len(st) :
                  /\ st[n].zhigh = At(inp.priceh_vals, st[n].zhigh_idx)
                  /\ st[n].zlow = At(inp.pricel_vals, st[n].zlow_idx)
            /\ \A i \in EvaluatedBars :
                  LET s == StateBefore(st, i)
                      t == StateAfter(st, i)
                      cur == i - result_df.lag
                  IN /\ t.zhigh_idx <= cur /\ t.zlow_idx <= cur
                     /\ (s.direction = 1 /\ At(inp.priceh_vals, cur) = s.zhigh)
                            => t.zhigh_idx = s.zhigh_idx
                     /\ (s.direction = 0 - 1 /\ At(inp.pricel_vals, cur) = s.zlow)
                            => t.zlow_idx = s.zlow_idx
                     /\ At(result_df.out.Signal, i) # 0
                            => At(result_df.out.Pivot_Time, i) <= At(df, i).t

\* a run in which a bar tied with a running high recorded at an earlier bar,
\* and a pivot was confirmed at a bar later than the pivot's own
C28_Witness ==
    /\ HasFrame
    /\ \E inp \in {Inputs} : \E st \in {ZigZagLoop(inp, result_df.lag)} :
          \E i, j \in EvaluatedBars :
             /\ StateBefore(st, i).direction = 1
             /\ At(inp.priceh_vals, i - result_df.lag) = StateBefore(st, i).zhigh
             /\ StateBefore(st, i).zhigh_idx < i - result_df.lag
             /\ At(result_df.out.Signal, j) # 0
             /\ At(result_df.out.Pivot_Time, j) < At(df, j).t

-----------------------------------------------------------------------------
(* Properties of the reversal amount *)

\* the settings of the run result_df holds, as calculate_reversal_v3 reads them
RunSettings ==
    LET is_custom == settings.sensitivity = "Custom"
        use_custom == is_custom /\ settings.custom_settings # None
        sens == get_sensitivity_settings(settings.sensitivity, is_custom,
                                         settings.custom_settings)
    IN [atr_mult |-> sens[1], pct_threshold |-> sens[2],
        fixed_amount |-> IF use_custom THEN settings.custom_settings.fixed_reversal
                         ELSE DefaultFixedAmount,
        atr_length |-> IF use_custom THEN settings.custom_settings.atr_length
                       ELSE DefaultAtrLength]

LargestOf(S) == CHOOSE v \in S : \A w \in S : w <= v

-----------------------------------------------------------------------------
(* The signal columns of the strategy scans: long_exits_scanner.py,
   bb_macd_scanner.py, adx_sar_scanner.py, vwma_macd_scanner.py.
   The columns pandas_ta computes (MACD, Bollinger bands, ADX, PSAR, VWMA)
   are given with the bars; the columns the repository computes from them
   are modelled. *)

\* comparisons of two column values: False when either is NaN
Lt(a, b) == ~IsNaN(a) /\ ~IsNaN(b) /\ a < b
Le(a, b) == ~IsNaN(a) /\ ~IsNaN(b) /\ a <= b

\* Series.shift(1)
shift1(col) == Series(Len(col), [k \in 1..Len(col) |-> IF k = 1 THEN NaN ELSE col[k - 1]])

\* (mutation of rolling_max: the window is one bar shorter)
rolling_max_Short(col, window) ==
    Series(Len(col), [k \in 1..Len(col) |->
        IF k < window THEN NaN
        ELSE IF \E j \in (k - window + 2)..k : col[j] THEN 1 ELSE 0])

\* Series.rolling(window).max() of a boolean column: NaN at the first
\* window - 1 bars, then 1 when a bar of the window holds True, else 0
rolling_max(col, window) ==
    Series(Len(col), [k \in 1..Len(col) |->
        IF k < window THEN NaN
        ELSE IF \E j \in (k - window + 1)..k : col[j] THEN 1 ELSE 0])

\* rolling(window).max() > 0
recent_gt0(col, window) ==
    CHOOSE r \in {Series(Len(col), [k \in 1..Len(col) |-> ~IsNaN(m[k]) /\ m[k] > 0]) :
                  m \in {rolling_max(col, window)}} : TRUE

\* rolling(window).max().fillna(0).astype(bool)
recent_filled(col, window) ==
    CHOOSE r \in {Series(Len(col), [k \in 1..Len(col) |-> fillna0(m)[k] # 0]) :
                  m \in {rolling_max(col, window)}} : TRUE

RecentWindow == 3
TouchWindow == 5

\* the columns written with .loc in the order given: conds is a sequence of
\* <<boolean column, Signal_Type, Signal>>, a later write replaces an earlier
signal_columns(n, conds, snapshot) ==
    LET last(k) == CHOOSE c \in {c \in 1..Len(conds) : conds[c][1][k]} :
                       \A d \in 1..Len(conds) : conds[d][1][k] => d <= c
        any(k) == \E c \in 1..Len(conds) : conds[c][1][k]
    IN [none |-> FALSE,
        Signal_Type |-> Series(n, [k \in 1..n |->
                            IF any(k) THEN conds[last(k)][2] ELSE "None"]),
        Signal |-> Series(n, [k \in 1..n |-> IF any(k) THEN conds[last(k)][3] ELSE 0]),
        Ind |-> snapshot]

\* --- long_exits
MaShortLen == 9
MaLongLen == 21
SwingWindow == 10

\* ta.sma(close, length)
sma(s, length) ==
    Series(Len(s), [k \in 1..Len(s) |->
        IF k < length THEN NaN ELSE SumSeq(SubSeq(s, k - length + 1, k)) \div length])

\* df['low'].rolling(window=10).min().shift(1)
swing_low(bars) ==
    LET low(k) == bars[k].low
        rmin == Series(Len(bars), [k \in 1..Len(bars) |->
                    IF k < SwingWindow THEN NaN
                    ELSE CHOOSE v \in {low(j) : j \in (k - SwingWindow + 1)..k} :
                             \A j \in (k - SwingWindow + 1)..k : v <= low(j)])
    IN shift1(rmin)

\* the three exit conditions, in the order the scan evaluates them
long_exits_conditions(bars) ==
    LET n == Len(bars)
        close == Series(n, [k \in 1..n |-> bars[k].close])
        MA_Short == sma(close, MaShortLen)
        MA_Long == sma(close, MaLongLen)
        Swing_Low_10 == swing_low(bars)
        MA_Short_Prev == shift1(MA_Short)
        MA_Long_Prev == shift1(MA_Long)
        Close_Prev == shift1(close)
        Structure_Prev == shift1(Swing_Low_10)
    IN [ma_cross_down |-> Series(n, [k \in 1..n |->
            Le(MA_Long_Prev[k], MA_Short_Prev[k]) /\ Lt(MA_Short[k], MA_Long[k])]),
        price_below_ma |-> Series(n, [k \in 1..n |->
            Le(MA_Long_Prev[k], Close_Prev[k]) /\ Lt(close[k], MA_Long[k])]),
        structure_break |-> Series(n, [k \in 1..n |->
            Le(Structure_Prev[k], Close_Prev[k]) /\ Lt(close[k], Swing_Low_10[k])]),
        MA_Long |-> MA_Long]

\* (mutation of long_exits_columns: the structure break is written first)
long_exits_columns_StructureFirst(bars) ==
    CHOOSE r \in {signal_columns(Len(bars),
                     <<<<c.structure_break, "Exit (Structure)", 0 - 1>>,
                       <<c.ma_cross_down, "Exit (MA Cross)", 0 - 1>>,
                       <<c.price_below_ma, "Exit (Price < MA)", 0 - 1>>>>,
                     c.MA_Long) : c \in {long_exits_conditions(bars)}} : TRUE

long_exits_columns(bars) ==
    CHOOSE r \in {signal_columns(Len(bars),
                     <<<<c.ma_cross_down, "Exit (MA Cross)", 0 - 1>>,
                       <<c.price_below_ma, "Exit (Price < MA)", 0 - 1>>,
                       <<c.structure_break, "Exit (Structure)", 0 - 1>>>>,
                     c.MA_Long) : c \in {long_exits_conditions(bars)}} : TRUE

\* --- bb_macd
macd_cross_up(bars) ==
    LET n == Len(bars)
    IN Series(n, [k \in 1..n |->
          /\ k > 1 /\ Le(bars[k - 1].MACD_Line, bars[k - 1].MACD_Signal)
          /\ Lt(bars[k].MACD_Signal, bars[k].MACD_Line)])

macd_cross_down(bars) ==
    LET n == Len(bars)
    IN Series(n, [k \in 1..n |->
          /\ k > 1 /\ Le(bars[k - 1].MACD_Signal, bars[k - 1].MACD_Line)
          /\ Lt(bars[k].MACD_Line, bars[k].MACD_Signal)])

\* low <= BB_Lower * 1.015 and high >= BB_Upper * 0.985
touch_lower_bb(bars) ==
    Series(Len(bars), [k \in 1..Len(bars) |->
        ~IsNaN(bars[k].BB_Lower) /\ bars[k].low * 1000 <= bars[k].BB_Lower * 1015])
touch_upper_bb(bars) ==
    Series(Len(bars), [k \in 1..Len(bars) |->
        ~IsNaN(bars[k].BB_Upper) /\ bars[k].high * 1000 >= bars[k].BB_Upper * 985])

bb_macd_conditions(bars) ==
    LET n == Len(bars)
        up == recent_gt0(macd_cross_up(bars), RecentWindow)
        lower == recent_gt0(touch_lower_bb(bars), TouchWindow)
        down == recent_gt0(macd_cross_down(bars), RecentWindow)
        upper == recent_gt0(touch_upper_bb(bars), TouchWindow)
    IN [bullish_cond |-> Series(n, [k \in 1..n |-> up[k] /\ lower[k]]),
        bearish_cond |-> Series(n, [k \in 1..n |-> down[k] /\ upper[k]])]

bb_macd_columns(bars) ==
    CHOOSE r \in {signal_columns(Len(bars),
                     <<<<c.bullish_cond, "Bullish", 1>>,
                       <<c.bearish_cond, "Bearish", 0 - 1>>>>,
                     Series(Len(bars), [k \in 1..Len(bars) |-> bars[k].BB_Lower])) :
                  c \in {bb_macd_conditions(bars)}} : TRUE

\* --- adx_sar
AdxLevel == 25 * 100
adx_cross_up_25(bars) ==
    Series(Len(bars), [k \in 1..Len(bars) |->
        /\ k > 1 /\ Lt(bars[k - 1].ADX, AdxLevel) /\ Le(AdxLevel, bars[k].ADX)])

adx_sar_conditions(bars) ==
    LET n == Len(bars)
        adx_cross_recent == recent_filled(adx_cross_up_25(bars), RecentWindow)
    IN [bullish_cond |-> Series(n, [k \in 1..n |->
                            adx_cross_recent[k] /\ bars[k].PSAR_Dir = 1]),
        bearish_cond |-> Series(n, [k \in 1..n |->
                            adx_cross_recent[k] /\ bars[k].PSAR_Dir = 0 - 1])]

adx_sar_columns(bars) ==
    CHOOSE r \in {signal_columns(Len(bars),
                     <<<<c.bullish_cond, "Bullish", 1>>,
                       <<c.bearish_cond, "Bearish", 0 - 1>>>>,
                     Series(Len(bars), [k \in 1..Len(bars) |-> bars[k].ADX])) :
                  c \in {adx_sar_conditions(bars)}} : TRUE

\* --- vwma_macd
vwma_macd_conditions(bars) ==
    LET n == Len(bars)
        macd_cross_up_recent == recent_filled(macd_cross_up(bars), RecentWindow)
        macd_cross_down_recent == recent_filled(macd_cross_down(bars), RecentWindow)
    IN [bullish_cond |-> Series(n, [k \in 1..n |->
                            macd_cross_up_recent[k] /\ Lt(bars[k].VWMA, bars[k].close)]),
        bearish_cond |-> Series(n, [k \in 1..n |->
                            macd_cross_down_recent[k] /\ Lt(bars[k].close, bars[k].VWMA)])]

vwma_macd_columns(bars) ==
    CHOOSE r \in {signal_columns(Len(bars),
                     <<<<c.bullish_cond, "Bullish", 1>>,
                       <<c.bearish_cond, "Bearish", 0 - 1>>>>,
                     Series(Len(bars), [k \in 1..Len(bars) |-> bars[k].VWMA])) :
                  c \in {vwma_macd_conditions(bars)}} : TRUE

\* one signal record and the "no-signal" record of a strategy scan (the
\* stock, price, time and type fields)
strategy_record(symbol, bars, cols, k) ==
    [Stock |-> symbol,
     LTP |-> round2(bars[Len(bars)].close),
     Signal_Type |-> cols.Signal_Type[k],
     Signal_Time |-> bars[k].t,
     Signal_Price |-> bars[k].close]

strategy_no_signal_record(symbol, bars) ==
    [Stock |-> symbol,
     LTP |-> round2(bars[Len(bars)].close),
     Signal_Type |-> "None",
     Signal_Time |-> NotAvailable,
     Signal_Price |-> 0]

\* the body the four scans share once the signal columns cols are written
strategy_scan(symbol, dfo, cols, start_date, end_date, show_all) ==
    LET bars == dfo.bars
        filtered_df == settings_filtered(bars, start_date, end_date)
        signal_rows == SelectSeq(filtered_df, LAMBDA k : cols.Signal[k] # 0)
        results_for_symbol ==
            Series(Len(signal_rows), [n \in 1..Len(signal_rows) |->
                strategy_record(symbol, bars, cols, signal_rows[n])])
    IN Returned(IF filtered_df = <<>> THEN <<>>
                ELSE with_show_all(results_for_symbol, show_all, cols.Ind[Len(bars)],
                                   strategy_no_signal_record(symbol, bars)),
                FALSE, [dfo EXCEPT !.cols = cols], cols.Signal)

long_exits_scan_symbol_prefetched(symbol, dfo, start_date, end_date, show_all) ==
    IF insufficient(dfo, SettingsScanMinBars) THEN Returned(<<>>, FALSE, dfo, <<>>)
    ELSE CHOOSE r \in {strategy_scan(symbol, dfo, cols, start_date, end_date, show_all) :
                       cols \in {long_exits_columns(dfo.bars)}} : TRUE

bb_macd_scan_symbol_prefetched(symbol, dfo, start_date, end_date, show_all) ==
    IF insufficient(dfo, SettingsScanMinBars) THEN Returned(<<>>, FALSE, dfo, <<>>)
    ELSE CHOOSE r \in {strategy_scan(symbol, dfo, cols, start_date, end_date, show_all) :
                       cols \in {bb_macd_columns(dfo.bars)}} : TRUE

adx_sar_scan_symbol_prefetched(symbol, dfo, start_date, end_date, show_all) ==
    IF insufficient(dfo, SettingsScanMinBars) THEN Returned(<<>>, FALSE, dfo, <<>>)
    ELSE CHOOSE r \in {strategy_scan(symbol, dfo, cols, start_date, end_date, show_all) :
                       cols \in {adx_sar_columns(dfo.bars)}} : TRUE

vwma_macd_scan_symbol_prefetched(symbol, dfo, start_date, end_date, show_all) ==
    IF insufficient(dfo, SettingsScanMinBars) THEN Returned(<<>>, FALSE, dfo, <<>>)
    ELSE CHOOSE r \in {strategy_scan(symbol, dfo, cols, start_date, end_date, show_all) :
                       cols \in {vwma_macd_columns(dfo.bars)}} : TRUE

-----------------------------------------------------------------------------
(* The strategy specification: a frame of one strategy scan grows by the
   bars a data source may deliver and is scanned once *)

StrategyKinds == {"long_exits", "bb_macd", "adx_sar", "vwma_macd"}

\* index of the first bar at which the library columns are available
\* (MACD signal line: macd_slow + macd_signal - 2)
LibWarmup == 33

\* a bar with its library columns; prices p = <<high, low, close>> in tenths
\* of a rupee, lib = <<MACD_Line, MACD_Signal, BB_Lower, BB_Upper, ADX,
\* PSAR_Dir, VWMA>> with MACD and the bands in tenths, ADX in points
StrategyBar(t, p, lib) ==
    LET tenth == PriceScale \div 10
        scaled(x, unit) == IF IsNaN(x) \/ t < LibWarmup THEN NaN ELSE x * unit
    IN [t |-> t, high |-> p[1] * tenth, low |-> p[2] * tenth, close |-> p[3] * tenth,
        MACD_Line |-> scaled(lib[1], tenth), MACD_Signal |-> scaled(lib[2], tenth),
        BB_Lower |-> scaled(lib[3], tenth), BB_Upper |-> scaled(lib[4], tenth),
        ADX |-> scaled(lib[5], 100), PSAR_Dir |-> lib[6],
        VWMA |-> scaled(lib[7], tenth)]

NoLib == <<NaN, NaN, NaN, NaN, NaN, NaN, NaN>>

\* the bars a data source may deliver: <<prices, library columns>>
StrategyShapes(kind) ==
    IF kind = "long_exits"
    THEN {<<<<100, 100, 100>>, NoLib>>, <<<<100, 50, 50>>, NoLib>>,
          <<<<100, 95, 95>>, NoLib>>, <<<<120, 100, 120>>, NoLib>>}
    ELSE IF kind = "bb_macd"
    THEN {<<<<101, 99, 100>>, <<10, 0, 98, 102, NaN, NaN, NaN>>>>,
          <<<<101, 99, 100>>, <<0 - 10, 0, 98, 102, NaN, NaN, NaN>>>>,
          <<<<101, 99, 100>>, <<0, 0, 90, 110, NaN, NaN, NaN>>>>,
          <<<<101, 99, 100>>, <<10, 0, 98, 110, NaN, NaN, NaN>>>>}
    ELSE IF kind = "adx_sar"
    THEN {<<<<100, 100, 100>>, <<NaN, NaN, NaN, NaN, 30, 1, NaN>>>>,
          <<<<100, 100, 100>>, <<NaN, NaN, NaN, NaN, 30, 0 - 1, NaN>>>>,
          <<<<100, 100, 100>>, <<NaN, NaN, NaN, NaN, 20, 1, NaN>>>>,
          <<<<100, 100, 100>>, <<NaN, NaN, NaN, NaN, 20, 0 - 1, NaN>>>>}
    ELSE {<<<<100, 100, 100>>, <<10, 0, NaN, NaN, NaN, NaN, 90>>>>,
          <<<<100, 100, 100>>, <<0 - 10, 0, NaN, NaN, NaN, NaN, 110>>>>,
          <<<<100, 100, 100>>, <<0, 0, NaN, NaN, NaN, NaN, 100>>>>,
          <<<<100, 100, 100>>, <<10, 0, NaN, NaN, NaN, NaN, 110>>>>}

\* the first PreLen bars of a symbol: quiet bars without a signal
StrategyPrefixShapes(kind) ==
    IF kind = "long_exits"
    THEN {<<<<100, 100, 100>>, NoLib>>, <<<<100, 90, 100>>, NoLib>>}
    ELSE IF kind = "bb_macd"
    THEN {<<<<101, 99, 100>>, <<0, 0, 90, 110, NaN, NaN, NaN>>>>}
    ELSE IF kind = "adx_sar"
    THEN {<<<<100, 100, 100>>, <<NaN, NaN, NaN, NaN, 20, 1, NaN>>>>}
    ELSE {<<<<100, 100, 100>>, <<0, 0, NaN, NaN, NaN, NaN, 100>>>>}

StrategyPrefixes(kind) ==
    {[k \in 1..PreLen |-> StrategyBar(k - 1, b[1], b[2])] : b \in StrategyPrefixShapes(kind)}

InitStrategy ==
    /\ scan_kind \in StrategyKinds
    /\ scan_df \in {AbsentDf, DfObject(FALSE, FALSE, <<>>)}
                   \cup {DfObject(FALSE, FALSE, b) : b \in StrategyPrefixes(scan_kind)}
    /\ scan_args \in [start_date : StartDates, end_date : EndDates, show_all : BOOLEAN]
    /\ scan_log = <<>>
    /\ RevIdle /\ DmiIdle /\ WmaIdle /\ MktIdle

StrategyAppendBar ==
    /\ scan_log = <<>>
    /\ Len(scan_df.bars) >= PreLen
    /\ Len(scan_df.bars) < MaxBars
    /\ \E b \in StrategyShapes(scan_kind) :
          scan_df' = [scan_df EXCEPT
                         !.bars = Append(@, StrategyBar(Len(scan_df.bars), b[1], b[2]))]
    /\ UNCHANGED <<scan_kind, scan_args, scan_log, rev_vars, dmi_vars, wma_vars, mkt_vars>>

CallLongExits ==
    /\ scan_kind = "long_exits"
    /\ scan_log = <<>>
    /\ Called(long_exits_scan_symbol_prefetched("SYM", scan_df, scan_args.start_date,
                                                scan_args.end_date, scan_args.show_all))

CallBbMacd ==
    /\ scan_kind = "bb_macd"
    /\ scan_log = <<>>
    /\ Called(bb_macd_scan_symbol_prefetched("SYM", scan_df, scan_args.start_date,
                                             scan_args.end_date, scan_args.show_all))

CallAdxSar ==
    /\ scan_kind = "adx_sar"
    /\ scan_log = <<>>
    /\ Called(adx_sar_scan_symbol_prefetched("SYM", scan_df, scan_args.start_date,
                                             scan_args.end_date, scan_args.show_all))

CallVwmaMacd ==
    /\ scan_kind = "vwma_macd"
    /\ scan_log = <<>>
    /\ Called(vwma_macd_scan_symbol_prefetched("SYM", scan_df, scan_args.start_date,
                                               scan_args.end_date, scan_args.show_all))

NextStrategy ==
    StrategyAppendBar \/ CallLongExits \/ CallBbMacd \/ CallAdxSar \/ CallVwmaMacd

SpecStrategy == InitStrategy /\ [][NextStrategy]_vars

-----------------------------------------------------------------------------
(* Properties of the strategy scans *)

\* the signal records of a returned list that carry the time of bar k
RecordsOfBar(e, k) ==
    {n \in 1..Len(e.ret) : /\ e.ret[n].Signal_Type # "None"
                           /\ e.ret[n].Signal_Time = e.df.bars[k].t}

\* the rows a call evaluated
EvaluatedRows(e) ==
    LET r == settings_filtered(e.df.bars, scan_args.start_date, scan_args.end_date)
    IN {r[n] : n \in 1..Len(r)}

\* the conditions of the strategy that hold at bar k, as the Signal Type of
\* each, in the order the scan evaluates them
TrueConditions(kind, bars) ==
    IF kind = "long_exits"
    THEN LET c == long_exits_conditions(bars)
         IN <<<<c.ma_cross_down, "Exit (MA Cross)">>,
              <<c.price_below_ma, "Exit (Price < MA)">>,
              <<c.structure_break, "Exit (Structure)">>>>
    ELSE LET c == IF kind = "bb_macd" THEN bb_macd_conditions(bars)
                  ELSE IF kind = "adx_sar" THEN adx_sar_conditions(bars)
                  ELSE vwma_macd_conditions(bars)
         IN <<<<c.bullish_cond, "Bullish">>, <<c.bearish_cond, "Bearish">>>>

\* C26: a bar at which one or more of the strategy's conditions hold yields,
\* when it is evaluated, exactly one signal record, whose type is that of
\* the condition evaluated last among those that hold ('Exit (Structure)'
\* over 'Exit (Price < MA)' over 'Exit (MA Cross)'; 'Bearish' over
\* 'Bullish'); no bar yields more than one record.
C26_LastConditionWins ==
    \A e \in Calls :
        Scannable(e) =>
            \A conds \in {TrueConditions(scan_kind, e.df.bars)} :
              \A rows \in {EvaluatedRows(e)} :
                \A k \in 1..Len(e.df.bars) :
                    LET holds == {c \in 1..Len(conds) : conds[c][1][k]}
                        recs == RecordsOfBar(e, k)
                    IN /\ Cardinality(recs) <= 1
                       /\ (holds # {} /\ k \in rows) =>
                              /\ Cardinality(recs) = 1
                              /\ \A n \in recs : \A c \in holds :
                                     (\A d \in holds : d <= c)
                                         => e.ret[n].Signal_Type = conds[c][2]
                       /\ (holds = {} \/ k \notin rows) => recs = {}

\* a long-exits scan that evaluated a bar at which all three exit
\* conditions hold and returned its record as 'Exit (Structure)'
C26_Witness ==
    /\ scan_kind = "long_exits"
    /\ \E e \in Calls :
          /\ Scannable(e)
          /\ \E conds \in {TrueConditions(scan_kind, e.df.bars)} :
              \E k \in 1..Len(e.df.bars) :
                 /\ \A c \in 1..Len(conds) : conds[c][1][k]
                 /\ \E n \in RecordsOfBar(e, k) :
                        e.ret[n].Signal_Type = "Exit (Structure)"

\* a BB+MACD scan that evaluated a bar at which the Bullish and the Bearish
\* condition both hold
BbMacdBothHold ==
    /\ scan_kind = "bb_macd"
    /\ \E e \in Calls :
          /\ Scannable(e)
          /\ \E conds \in {TrueConditions(scan_kind, e.df.bars)} :
              \E k \in 1..Len(e.df.bars) :
                 /\ \A c \in 1..Len(conds) : conds[c][1][k]
                 /\ \E n \in RecordsOfBar(e, k) : e.ret[n].Signal_Type = "Bearish"

\* a long-exits scan that evaluated a bar at which the MA cross and the
\* close below the MA hold and the structure break does not
LongExitsTwoHold ==
    /\ scan_kind = "long_exits"
    /\ \E e \in Calls :
          /\ Scannable(e)
          /\ \E conds \in {TrueConditions(scan_kind, e.df.bars)} :
              \E k \in 1..Len(e.df.bars) :
                 /\ conds[1][1][k] /\ conds[2][1][k] /\ ~conds[3][1][k]
                 /\ \E n \in RecordsOfBar(e, k) :
                        e.ret[n].Signal_Type = "Exit (Price < MA)"

\* the pairs <<underlying predicate, widened predicate>> a scan of the kind
\* computes with rolling(window=3).max()
RecencyPairs(kind, bars) ==
    IF kind = "bb_macd"
    THEN {<<u, recent_gt0(u, RecentWindow)>> :
              u \in {macd_cross_up(bars), macd_cross_down(bars)}}
    ELSE IF kind = "adx_sar"
    THEN {<<u, recent_filled(u, RecentWindow)>> : u \in {adx_cross_up_25(bars)}}
    ELSE IF kind = "vwma_macd"
    THEN {<<u, recent_filled(u, RecentWindow)>> :
              u \in {macd_cross_up(bars), macd_cross_down(bars)}}
    ELSE {}

\* C27: the widened predicate holds at bar i exactly when the underlying
\* predicate held at one or more of the bars i-2, i-1, i, and it does not
\* hold at the first two bars of the frame.
C27_RecencyWindow ==
    \A e \in Calls :
        Scannable(e) =>
            \A p \in RecencyPairs(scan_kind, e.df.bars) :
                \A k \in 1..Len(e.df.bars) :
                    p[2][k] <=> (k >= 3 /\ \E j \in (k - 2)..k : p[1][j])

\* a scan of a frame in which the underlying predicate held at one bar and
\* not at the three bars after it: the widened predicate holds at that bar
\* and the two after it and no longer at the third; the scan returned a
\* signal record for the second bar after it
C27_Witness ==
    \E e \in Calls :
        /\ Scannable(e)
        /\ \E p \in RecencyPairs(scan_kind, e.df.bars) :
             \E k \in 3..(Len(e.df.bars) - 3) :
                /\ p[1][k] /\ ~p[1][k + 1] /\ ~p[1][k + 2] /\ ~p[1][k + 3]
                /\ p[2][k] /\ p[2][k + 1] /\ p[2][k + 2] /\ ~p[2][k + 3]
                /\ RecordsOfBar(e, k + 2) # {}
                /\ RecordsOfBar(e, k + 3) = {}

-----------------------------------------------------------------------------
(* Properties of the progress count *)

Collected == {i \in 1..Len(tasks) : tasks[i].pc = "collected"}

\* C29: progress_callback is called once per finished symbol with a count
\* that goes up by exactly 1 each time, never exceeds the number of symbols,
\* and is the number of symbols at the last call of a batch that returned.
C29_ProgressCount ==
    (results # NotRun /\ ~results.raised) =>
        /\ Len(results.progress) = Cardinality(Collected)
        /\ \A n \in 1..Len(results.progress) :
              /\ results.progress[n] = n
              /\ results.progress[n] <= Len(symbols)
        /\ (results.returned /\ results.progress # <<>>) =>
              results.progress[Len(results.progress)] = Len(symbols)

\* the same for the batches of nse_scanner alone
ProgressCountNse == scan_kind = "nse" => C29_ProgressCount

-----------------------------------------------------------------------------
(* Properties of the evaluated bars *)

\* C30: whatever dates a settings-based scan is given (both, one or none),
\* the bars it evaluates, seen through the times of its signal records, are
\* the last bar alone or bars inside the requested bounds only; the bars of
\* the history outside the bounds are never evaluated.
C30_EvaluatedBarsBounded ==
    scan_kind = "settings" =>
        \A e \in Calls :
            Scannable(e) =>
                LET recs == SignalRecords(e.ret)
                    times == {recs[n].Signal_Time : n \in 1..Len(recs)}
                IN \/ times \subseteq {LastBar(e).t}
                   \/ \A t \in times :
                         /\ scan_args.start_date # NoDate
                                => t >= start_of_day(scan_args.start_date)
                         /\ scan_args.end_date # NoDate
                                => t <= end_of_day(scan_args.end_date)

\* the same for the scans given both dates or none
EvaluatedBarsBoundedBothOrNone == (IsLive \/ IsRanged) => C30_EvaluatedBarsBounded

====
